---- MODULE Spec2Model ----
(***************************************************************************)
(* Bitcoin relay: one relay chain with its hops in the Store              *)
(* (database.py), the block chain and fee oracle the Chain Client reads   *)
(* (bitcoin_utils.py), the engine worker's cycle (relay_engine.py) and    *)
(* the control-surface requests create, cancel, activate, retry and       *)
(* fix-status (app.py), the engine objects and worker threads the         *)
(* process starts and stops (app.py, relay_engine.py), the key vault      *)
(* (encryption.py), and a worker's loop over all the chains of its        *)
(* network (relay_engine.py).                                             *)
(*                                                                        *)
(* Every Store operation of database.py opens its own connection and      *)
(* commits on its own, so a Store call is one step; the engine worker    *)
(* and a request handler run in different threads and interleave between  *)
(* those steps.  One request handler is in flight at a time (variable     *)
(* req); the engine is one worker thread (variable eng).                  *)
(*                                                                        *)
(* Addresses are numbered 0 = intake, k+1 = hop k, NumHops+1 = final.     *)
(***************************************************************************)
EXTENDS Integers, Sequences, FiniteSets, TLC

\* ------------------------------------------------------------------ bounds
NumHops == 3
MaxTip == 4
MaxDeposits == 2
MaxErrors == 1
MaxCrashes == 1
MaxFibN == 15
NumHandlers == 2
MaxEngines == 3
MaxText == 2
NumChains == 3
MaxCycles == 2
MaxFatal == 1

\* --------------------------------------------------------- program constants
ESTIMATED_TX_VBYTES == 110
FEE_FLOOR == 200
MANUAL_FEE == 200
TESTNET_DEFAULT_RATE == 10
NULL == -1
MIN_HOPS == 2
MAX_HOPS == 10
SALT_LENGTH == 16
NONCE_LENGTH == 12
TAG_LENGTH == 16
FIBONACCI_DELAYS == <<1, 1, 2, 3, 5, 8, 13, 21, 34, 55, 89, 144>>

Intake == 0
Final == NumHops + 1
HopAddr(k) == k + 1

HopIdx == 0 .. (NumHops - 1)
Addr == 0 .. (NumHops + 1)

\* the addresses an outside payer sends to and the amounts sent, and the
\* oracle's halfHourFee answers
DepositTargets == {Intake, Final}
DepositAmounts == {1500}
SmallAmounts == {300, 1500}
HalfHourFees == {1}

\* the num_hops a create request asks for
RequestedHops == {MIN_HOPS - 1, MIN_HOPS, NumHops, MAX_HOPS, MAX_HOPS + 1}

\* the networks of config.NETWORKS, and the one the engine was started for
Networks == {"testnet", "mainnet"}
EngineNetwork == "testnet"

EventTypes == {"chain_created", "chain_activated", "chain_cancelled", "relay_sent",
               "relay_error", "chain_completed", "manual_relay"}

VARIABLES
    tip,          \* block chain: height of the best block
    conf,         \* block chain: chain funded - chain spent, per address
    unconf,       \* mempool: mempool funded - mempool spent, per address
    oracle,       \* fee oracle: reachable or not, and its halfHourFee
    txCount,      \* number of transactions broadcast so far (txids are 1, 2, ...)
    chain,        \* Store: the relay_chains row
    hops,         \* Store: the relay_hops rows, by hop_number
    log,          \* Store: transaction_log, number of entries per event_type
    last_height,  \* Store: block_tracker.last_height, per network
    eng,          \* the engine worker: position in _process_cycle and its locals
    req,          \* the request handler in flight and its locals
    cyc,          \* history of the engine's current cycle
    hist,         \* history of the run (deposits, crashes, undisturbed cycles)
    life,         \* the engine objects, their worker threads and the engine lock
    vault,        \* the key vault: a secret, its stored record and the last decryption
    loop          \* a worker's _run loop over all the chains of its network

vars == <<tip, conf, unconf, oracle, txCount, chain, hops, log, last_height,
          eng, req, cyc, hist, life, vault, loop>>
chainVars == <<tip, conf, unconf, oracle>>
storeVars == <<chain, hops, log, last_height>>

\* ---------------------------------------------------------------- helpers
Max(a, b) == IF a >= b THEN a ELSE b

\* Python truthiness of an optional integer column: None and 0 are false
Truthy(x) == x # NULL /\ x # 0

\* `x or 0` on an optional integer column
OrZero(x) == IF Truthy(x) THEN x ELSE 0

RECURSIVE SumFees(_, _)
SumFees(hs, k) ==
    IF k = NumHops THEN 0 ELSE OrZero(hs[k].outgoing_fee_sats) + SumFees(hs, k + 1)

\* ------------------------------------------------------------ Chain Client
\* BitcoinAPI.get_address_balance: (confirmed, unconfirmed)
AddressBalance(a) == <<conf[a], unconf[a]>>

\* key.get_balance('satoshi') as the sweep reads it: the outputs of the address
\* that nothing has spent yet, confirmed or in the mempool
LiveBalance_ConfirmedOnly(a) == conf[a]
LiveBalance(a) == conf[a] + unconf[a]

\* BitcoinAPI.get_fee_estimates()['medium'].estimated_fee_sats
MediumFeeSats ==
    IF oracle.up THEN oracle.halfHourFee * ESTIMATED_TX_VBYTES
    ELSE TESTNET_DEFAULT_RATE * ESTIMATED_TX_VBYTES

\* fee_sats = max(fees['medium'].estimated_fee_sats, 200)
EngineFee_NoFloor == MediumFeeSats
EngineFee == Max(MediumFeeSats, FEE_FLOOR)

\* `if actual_balance <= fee_sats`: nothing is left to send after the fee
Insufficient_Never(actual_balance, fee_sats) == FALSE
Insufficient(actual_balance, fee_sats) == actual_balance <= fee_sats

\* a sweep of address a paying `amount` to address d with fee bal - amount
BroadcastUnconf(a, d, bal, amount) ==
    [x \in Addr |->
        (unconf[x] - (IF x = a THEN bal ELSE 0)) + (IF x = d THEN amount ELSE 0)]

\* ------------------------------------------------------------------- Store
\* database.update_block_height: the block_tracker row of `network`, inserted
\* or updated
update_block_height_AllRows(t, network, height) == [n \in Networks |-> height]
update_block_height(t, network, height) == [t EXCEPT ![network] = height]

\* database.update_chain_status
update_chain_status(c, s) == [c EXCEPT !.status = s]

\* database.update_chain_amounts: a NULL argument leaves the column alone
update_chain_amounts_Progress(c, recv, sent, fees, cur) ==
    [c EXCEPT
        !.amount_received_sats = IF recv # NULL THEN recv ELSE @,
        !.amount_sent_sats = IF sent # NULL THEN sent ELSE @,
        !.total_fees_sats = IF fees # NULL THEN fees ELSE @,
        !.current_hop = IF recv # NULL THEN @ + 1 ELSE IF cur # NULL THEN cur ELSE @]
update_chain_amounts(c, recv, sent, fees, cur) ==
    [c EXCEPT
        !.amount_received_sats = IF recv # NULL THEN recv ELSE @,
        !.amount_sent_sats = IF sent # NULL THEN sent ELSE @,
        !.total_fees_sats = IF fees # NULL THEN fees ELSE @,
        !.current_hop = IF cur # NULL THEN cur ELSE @]

\* database.update_hop_funded
update_hop_funded(h, txid, amount, confirmed_at_block, relay_at_block) ==
    [h EXCEPT
        !.status = "pending_relay",
        !.incoming_txid = txid,
        !.incoming_amount_sats = amount,
        !.incoming_confirmed_at_block = confirmed_at_block,
        !.relay_at_block = relay_at_block]

\* database.update_hop_relayed
update_hop_relayed(h, txid, amount, fee) ==
    [h EXCEPT
        !.status = "relayed",
        !.outgoing_txid = txid,
        !.outgoing_amount_sats = amount,
        !.outgoing_fee_sats = fee]

\* database.update_hop_status
update_hop_status(h, s) == [h EXCEPT !.status = s]

\* database.log_transaction
log_transaction_Twice(l, event_type) == [l EXCEPT ![event_type] = @ + 2]
log_transaction(l, event_type) == [l EXCEPT ![event_type] = @ + 1]

\* calculate_fibonacci_delays: fib.append(fib[-1] + fib[-2])
FibAppend_Double(fib) == Append(fib, fib[Len(fib)] + fib[Len(fib)])
FibAppend(fib) == Append(fib, fib[Len(fib)] + fib[Len(fib) - 1])

\* calculate_fibonacci_delays: while len(fib) < num_hops
RECURSIVE FibExtend(_, _)
FibExtend(fib, num_hops) ==
    IF Len(fib) < num_hops THEN FibExtend(FibAppend(fib), num_hops) ELSE fib

\* bitcoin_utils.calculate_fibonacci_delays, for num_hops >= 0: the first
\* num_hops entries of the table, which is extended when it is too short
calculate_fibonacci_delays(num_hops) ==
    IF num_hops > Len(FIBONACCI_DELAYS)
    THEN SubSeq(FibExtend(FIBONACCI_DELAYS, num_hops), 1, num_hops)
    ELSE SubSeq(FIBONACCI_DELAYS, 1, num_hops)

\* database.create_relay_hop: the row it inserts
create_relay_hop(delay_blocks) ==
    [status |-> "waiting",
     delay_blocks |-> delay_blocks,
     incoming_txid |-> NULL,
     incoming_amount_sats |-> NULL,
     incoming_confirmed_at_block |-> NULL,
     outgoing_txid |-> NULL,
     outgoing_amount_sats |-> NULL,
     outgoing_fee_sats |-> NULL,
     relay_at_block |-> NULL]

\* hop k of a chain of NumHops hops as create_chain_route leaves it
NewHop(k) == create_relay_hop(calculate_fibonacci_delays(NumHops)[k + 1])

\* database.create_relay_chain: the row it inserts
create_relay_chain(total_hops) ==
    [status |-> "pending",
     total_hops |-> total_hops,
     current_hop |-> 0,
     amount_received_sats |-> NULL,
     amount_sent_sats |-> NULL,
     total_fees_sats |-> 0]

\* the Store before the chain's row is inserted: no row, no hops
NoChain == [create_relay_chain(0) EXCEPT !.status = "none"]
NoHops == [k \in {} |-> create_relay_hop(NULL)]

\* the relay_chains row of a chain of NumHops hops as create_chain_route leaves it
NewChain == create_relay_chain(NumHops)

\* ------------------------------------------------------- histories (ghosts)
\* nothing of the cycle in progress has happened yet
NewCycle ==
    [bcasts |-> 0,           \* sweeps this cycle broadcast
     sawFinal |-> FALSE,     \* _process_chain saw a balance > 0 at the final address
     sweptFinal |-> FALSE,   \* this cycle broadcast the last hop's sweep to final
     second |-> FALSE,       \* the cycle before ran without error, nothing changed since it began
     secondAny |-> FALSE,    \* the same, the cycle before may have ended in a failed sweep
     afterCancel |-> FALSE]  \* the cycle began when the stored status was cancelled

\* something outside the engine changed the block chain, the oracle or the Store
Disturb(h) == IF h.track THEN [h EXCEPT !.clean = FALSE, !.ran = FALSE] ELSE h
DisturbCycle(c) == [c EXCEPT !.second = FALSE, !.secondAny = FALSE]

\* ------------------------------------------------------------- environment
\* an outside payer sends amt to address a (it enters the mempool)
Deposit(a, amt) ==
    /\ hist.deposits < MaxDeposits
    /\ unconf' = [unconf EXCEPT ![a] = @ + amt]
    /\ hist' = [Disturb(hist) EXCEPT !.deposits = @ + 1]
    /\ cyc' = DisturbCycle(cyc)
    /\ UNCHANGED <<tip, conf, oracle, txCount, storeVars, eng, req, life, vault, loop>>

\* the owner of the final address spends what it holds (the spend enters the
\* mempool)
SpendFinal ==
    /\ LiveBalance(Final) > 0
    /\ unconf' = [unconf EXCEPT ![Final] = @ - LiveBalance(Final)]
    /\ hist' = Disturb(hist)
    /\ cyc' = DisturbCycle(cyc)
    /\ UNCHANGED <<tip, conf, oracle, txCount, storeVars, eng, req, life, vault, loop>>

\* a block is mined: the mempool confirms and the tip advances
Mine ==
    /\ tip < MaxTip
    /\ tip' = tip + 1
    /\ conf' = [a \in Addr |-> conf[a] + unconf[a]]
    /\ unconf' = [a \in Addr |-> 0]
    /\ hist' = Disturb(hist)
    /\ cyc' = DisturbCycle(cyc)
    /\ UNCHANGED <<oracle, txCount, storeVars, eng, req, life, vault, loop>>

\* a block is mined while the mempool holds a transaction of the chain's
\* addresses: every broadcast transaction confirms in the next block
MineLive ==
    /\ \E a \in Addr : unconf[a] # 0
    /\ tip' = tip + 1
    /\ conf' = [a \in Addr |-> conf[a] + unconf[a]]
    /\ unconf' = [a \in Addr |-> 0]
    /\ hist' = Disturb(hist)
    /\ cyc' = DisturbCycle(cyc)
    /\ UNCHANGED <<oracle, txCount, storeVars, eng, req, life, vault, loop>>

\* the one payment of a relay: the payer funds the intake once
DepositOnce ==
    /\ hist.deposits = 0
    /\ \E amt \in DepositAmounts : Deposit(Intake, amt)

OracleStates ==
    [up : {TRUE}, halfHourFee : HalfHourFees] \cup {[up |-> FALSE, halfHourFee |-> 0]}

\* ------------------------------------------------------------------ engine
\* the worker between two cycles (RelayEngine._run waiting on the stop event)
EngIdle ==
    [pc |-> "idle",
     block |-> 0,
     hops |-> [k \in HopIdx |-> NewHop(k)],
     loc |-> <<"none", 0>>,
     dest_hop_index |-> 0,
     tx |-> [txid |-> 0, amount |-> 0, fee |-> 0, balance |-> 0],
     mark |-> 0]

\* RelayEngine._find_funds_location: the hops in order, after the intake
RECURSIVE FirstFundedHop(_)
FirstFundedHop(i) ==
    IF i = NumHops THEN [found |-> FALSE, type |-> <<"none", 0>>, balance |-> 0]
    ELSE IF AddressBalance(HopAddr(i))[1] > 0
         THEN [found |-> TRUE, type |-> <<"hop", i + 1>>,
               balance |-> AddressBalance(HopAddr(i))[1]]
         ELSE FirstFundedHop(i + 1)

FindFundsLocation ==
    IF AddressBalance(Intake)[1] > 0
    THEN [found |-> TRUE, type |-> <<"intake", 0>>, balance |-> AddressBalance(Intake)[1]]
    ELSE FirstFundedHop(0)

\* _relay_from_location, "Determine source and destination"
HopIndexOf(loc) == loc[2] - 1

NextHopIndex_Same(hop_index) == hop_index
NextHopIndex(hop_index) == hop_index + 1

RelayPlan(loc) ==
    IF loc[1] = "intake"
    THEN [src |-> Intake, dest |-> HopAddr(0), dest_hop_index |-> 0]
    ELSE IF HopIndexOf(loc) < NumHops - 1
         THEN [src |-> HopAddr(HopIndexOf(loc)),
               dest |-> HopAddr(NextHopIndex(HopIndexOf(loc))),
               dest_hop_index |-> NextHopIndex(HopIndexOf(loc))]
         ELSE [src |-> HopAddr(HopIndexOf(loc)), dest |-> Final, dest_hop_index |-> -1]

\* _process_cycle: the tip is read, the chains are loaded, the active ones kept
EngineCycleStart ==
    /\ eng.pc = "idle"
    /\ eng' = [eng EXCEPT !.pc = IF chain.status = "active" THEN "find" ELSE "tip",
                          !.block = tip]
    /\ cyc' = [NewCycle EXCEPT !.second = hist.clean, !.secondAny = hist.ran,
                              !.afterCancel = chain.status = "cancelled"]
    /\ hist' = IF hist.track THEN [hist EXCEPT !.clean = TRUE, !.ran = TRUE] ELSE hist
    /\ UNCHANGED <<chainVars, txCount, storeVars, req, life, vault, loop>>

\* _process_cycle: get_block_height raises; the cycle returns at once
EngineTipFail ==
    /\ eng.pc = "idle"
    /\ hist' = Disturb(hist)
    /\ cyc' = NewCycle
    /\ UNCHANGED <<chainVars, txCount, storeVars, eng, req, life, vault, loop>>

\* where _process_chain goes when no address of the chain holds confirmed funds
NoFundsPc_Always == "c_amt"
NoFundsPc ==
    IF AddressBalance(Final)[1] > 0 \/ AddressBalance(Final)[2] > 0
    THEN "c_amt" ELSE "tip"

\* _process_chain: the hops are loaded, the balances read, the funds located
\* (the scan's balance queries, one per address in the code, are read in one
\* step: the located source is the lowest funded address as the scan read it)
EngineFind ==
    /\ eng.pc = "find"
    /\ LET loc == FindFundsLocation IN
        IF loc.found
        THEN /\ eng' = [eng EXCEPT !.pc = "relay", !.hops = hops, !.loc = loc.type]
             /\ cyc' = cyc
        ELSE /\ eng' = [eng EXCEPT !.pc = NoFundsPc, !.hops = hops]
             /\ cyc' = [cyc EXCEPT !.sawFinal = AddressBalance(Final)[1] > 0
                                                \/ AddressBalance(Final)[2] > 0]
    /\ UNCHANGED <<chainVars, txCount, storeVars, req, hist, life, vault, loop>>

\* _process_chain: a balance query raises; _process_cycle logs it and goes on
EngineFindFail ==
    /\ eng.pc = "find"
    /\ eng' = [eng EXCEPT !.pc = "tip"]
    /\ hist' = Disturb(hist)
    /\ UNCHANGED <<chainVars, txCount, storeVars, req, cyc, life, vault, loop>>

\* where the worker goes after a sweep's relay_sent entry is written
AfterSweepPc_Rescan(dest_hop_index) == IF dest_hop_index = -1 THEN "c_amt" ELSE "find"
AfterSweepPc(dest_hop_index) == IF dest_hop_index = -1 THEN "c_amt" ELSE "tip"

\* _relay_from_location up to the broadcast: plan, fee, live balance, transaction
EngineRelay ==
    /\ eng.pc = "relay"
    /\ LET plan == RelayPlan(eng.loc)
           fee_sats == EngineFee
           actual_balance == LiveBalance(plan.src)
           amount_to_send == actual_balance - fee_sats
       IN
        IF Insufficient(actual_balance, fee_sats)
        THEN /\ eng' = [eng EXCEPT !.pc = "tip"]
             /\ UNCHANGED <<unconf, txCount, cyc, hist>>
        ELSE /\ unconf' = BroadcastUnconf(plan.src, plan.dest, actual_balance, amount_to_send)
             /\ txCount' = txCount + 1
             /\ eng' = [eng EXCEPT
                    !.pc = IF eng.loc[1] = "intake" THEN "w_recv" ELSE "w_rel",
                    !.dest_hop_index = plan.dest_hop_index,
                    !.tx = [txid |-> txCount + 1, amount |-> amount_to_send,
                            fee |-> fee_sats, balance |-> actual_balance]]
             /\ cyc' = [cyc EXCEPT !.bcasts = @ + 1]
             /\ hist' = hist
    /\ UNCHANGED <<tip, conf, oracle, storeVars, req, life, vault, loop>>

\* _relay_from_location: decryption, the balance query or the broadcast raises;
\* the except branch appends a relay_error entry
EngineRelayFail ==
    /\ eng.pc = "relay"
    /\ log["relay_error"] < MaxErrors
    /\ log' = log_transaction(log, "relay_error")
    /\ eng' = [eng EXCEPT !.pc = "tip"]
    /\ hist' = [hist EXCEPT !.clean = FALSE]
    /\ cyc' = cyc
    /\ UNCHANGED <<chainVars, txCount, chain, hops, last_height, req, life, vault, loop>>

\* update_chain_amounts(chain_id, amount_received_sats=actual_balance)
EngineWriteReceived ==
    /\ eng.pc = "w_recv"
    /\ chain' = update_chain_amounts(chain, eng.tx.balance, NULL, NULL, NULL)
    /\ eng' = [eng EXCEPT !.pc = "w_fund"]
    /\ cyc' = cyc
    /\ UNCHANGED <<chainVars, txCount, hops, log, last_height, req, hist, life, vault, loop>>

\* update_hop_relayed on the source hop
EngineWriteRelayed ==
    /\ eng.pc = "w_rel"
    /\ hops' = [hops EXCEPT ![HopIndexOf(eng.loc)] =
                    update_hop_relayed(@, eng.tx.txid, eng.tx.amount, eng.tx.fee)]
    /\ eng' = [eng EXCEPT !.pc = IF eng.dest_hop_index >= 0 THEN "w_fund" ELSE "w_cur"]
    /\ cyc' = cyc
    /\ UNCHANGED <<chainVars, txCount, chain, log, last_height, req, hist, life, vault, loop>>

\* update_hop_funded on the destination hop
EngineWriteFunded ==
    /\ eng.pc = "w_fund"
    /\ hops' = [hops EXCEPT ![eng.dest_hop_index] =
                    update_hop_funded(@, eng.tx.txid, eng.tx.amount, eng.block, eng.block)]
    /\ eng' = [eng EXCEPT !.pc = IF eng.loc[1] = "intake" THEN "w_log" ELSE "w_cur"]
    /\ cyc' = cyc
    /\ UNCHANGED <<chainVars, txCount, chain, log, last_height, req, hist, life, vault, loop>>

\* update_chain_amounts(chain_id, current_hop=hop_index + 1)
EngineWriteProgress ==
    /\ eng.pc = "w_cur"
    /\ chain' = update_chain_amounts(chain, NULL, NULL, NULL, HopIndexOf(eng.loc) + 1)
    /\ eng' = [eng EXCEPT !.pc = "w_log"]
    /\ cyc' = cyc
    /\ UNCHANGED <<chainVars, txCount, hops, log, last_height, req, hist, life, vault, loop>>

\* log_transaction(event_type='relay_sent'), then "Check if this was the final relay"
EngineWriteLog ==
    /\ eng.pc = "w_log"
    /\ log' = log_transaction(log, "relay_sent")
    /\ eng' = [eng EXCEPT !.pc = AfterSweepPc(eng.dest_hop_index)]
    /\ cyc' = [cyc EXCEPT !.sweptFinal = eng.dest_hop_index = -1]
    /\ UNCHANGED <<chainVars, txCount, chain, hops, last_height, req, hist, life, vault, loop>>

\* _complete_chain: "Try to get from last hop's outgoing amount", reversed(hops)
RECURSIVE LastOutgoing(_, _)
LastOutgoing(hs, k) ==
    IF k < 0 THEN 0
    ELSE IF Truthy(hs[k].outgoing_amount_sats) THEN hs[k].outgoing_amount_sats
         ELSE LastOutgoing(hs, k - 1)

\* _complete_chain: final_amount, from the final address or else from the hops
\* of the cycle's snapshot
FinalAmount(hs) ==
    IF AddressBalance(Final)[1] + AddressBalance(Final)[2] = 0
    THEN LastOutgoing(hs, NumHops - 1)
    ELSE AddressBalance(Final)[1] + AddressBalance(Final)[2]

\* _complete_chain: the next hop from index k on that the snapshot shows not relayed
RECURSIVE NextUnrelayed(_, _)
NextUnrelayed(hs, k) ==
    IF k >= NumHops THEN NumHops
    ELSE IF hs[k].status # "relayed" THEN k ELSE NextUnrelayed(hs, k + 1)

\* _complete_chain: update_chain_amounts(amount_sent_sats, total_fees_sats)
EngineCompleteAmounts ==
    /\ eng.pc = "c_amt"
    /\ chain' = update_chain_amounts(chain, NULL, FinalAmount(eng.hops),
                                     SumFees(eng.hops, 0), NULL)
    /\ eng' = [eng EXCEPT !.pc = "c_status"]
    /\ cyc' = cyc
    /\ UNCHANGED <<chainVars, txCount, hops, log, last_height, req, hist, life, vault, loop>>

\* _complete_chain: the final balance query raises. After a sweep the handler of
\* _relay_from_location catches it and logs relay_error; otherwise _process_cycle
\* catches it. The chain stays as it is.
EngineCompleteFail ==
    /\ eng.pc = "c_amt"
    /\ IF eng.loc[1] = "none"
       THEN log' = log
       ELSE /\ log["relay_error"] < MaxErrors
            /\ log' = log_transaction(log, "relay_error")
    /\ eng' = [eng EXCEPT !.pc = "tip"]
    /\ hist' = [hist EXCEPT !.clean = FALSE]
    /\ cyc' = cyc
    /\ UNCHANGED <<chainVars, txCount, chain, hops, last_height, req, life, vault, loop>>

\* _complete_chain: update_chain_status(chain_id, 'completed')
EngineCompleteStatus ==
    /\ eng.pc = "c_status"
    /\ chain' = update_chain_status(chain, "completed")
    /\ eng' = [eng EXCEPT
           !.pc = IF NextUnrelayed(eng.hops, 0) < NumHops THEN "c_mark" ELSE "c_log",
           !.mark = NextUnrelayed(eng.hops, 0)]
    /\ cyc' = cyc
    /\ UNCHANGED <<chainVars, txCount, hops, log, last_height, req, hist, life, vault, loop>>

\* _complete_chain: update_hop_status(hop['id'], 'relayed') for the next such hop
EngineCompleteMark ==
    /\ eng.pc = "c_mark"
    /\ hops' = [hops EXCEPT ![eng.mark] = update_hop_status(@, "relayed")]
    /\ eng' = [eng EXCEPT
           !.pc = IF NextUnrelayed(eng.hops, eng.mark + 1) < NumHops
                  THEN "c_mark" ELSE "c_log",
           !.mark = NextUnrelayed(eng.hops, eng.mark + 1)]
    /\ cyc' = cyc
    /\ UNCHANGED <<chainVars, txCount, chain, log, last_height, req, hist, life, vault, loop>>

\* _complete_chain: log_transaction(event_type='chain_completed')
EngineCompleteLog ==
    /\ eng.pc = "c_log"
    /\ log' = log_transaction(log, "chain_completed")
    /\ eng' = [eng EXCEPT !.pc = "tip"]
    /\ cyc' = cyc
    /\ UNCHANGED <<chainVars, txCount, chain, hops, last_height, req, hist, life, vault, loop>>

\* _process_cycle: update_block_height(self.network, current_block); the cycle ends
EngineTip ==
    /\ eng.pc = "tip"
    /\ last_height' = update_block_height(last_height, EngineNetwork, eng.block)
    /\ eng' = EngIdle
    /\ cyc' = NewCycle
    /\ UNCHANGED <<chainVars, txCount, chain, hops, log, req, hist, life, vault, loop>>

\* the process dies inside a cycle and is started again: the worker's locals are
\* lost, the Store and the block chain keep what was committed and broadcast
EngineCrash ==
    /\ eng.pc # "idle"
    /\ hist.crashes < MaxCrashes
    /\ eng' = EngIdle
    /\ hist' = [Disturb(hist) EXCEPT
           !.crashes = @ + 1,
           !.crashAfterIntake = @ \/ eng.pc = "w_recv"]
    /\ cyc' = NewCycle
    /\ UNCHANGED <<chainVars, txCount, storeVars, req, life, vault, loop>>

\* ---------------------------------------------------------------- requests
\* no request handler is running
ReqIdle ==
    [kind |-> "none",
     pc |-> "none",
     status |-> "none",
     hops |-> [k \in HopIdx |-> NewHop(k)],
     block |-> 0,
     i |-> 0,
     final_bal |-> 0,
     tx |-> [txid |-> 0, amount |-> 0, fee |-> 0, balance |-> 0],
     results |-> <<>>,
     num_hops |-> 0,
     delays |-> <<>>,
     start |-> [a \in Addr |-> <<0, 0>>]]   \* history: the balances when a walk began

\* create_chain_route: `if num_hops < MIN_HOPS or num_hops > MAX_HOPS` rejects
ValidNumHops_NoUpper(num_hops) == ~(num_hops < MIN_HOPS)
ValidNumHops(num_hops) == ~(num_hops < MIN_HOPS \/ num_hops > MAX_HOPS)

\* create_chain_route up to create_relay_chain: the request is rejected (400)
\* for its num_hops or its final address, answered without a write when it is
\* a dry run, or fails (500) when a key cannot be generated or encrypted; else
\* the delays are computed
CreateCheck ==
    /\ req.kind = "none"
    /\ chain.status = "none"
    /\ \E num_hops \in RequestedHops, final_ok \in BOOLEAN, dry_run \in BOOLEAN :
          req' = IF ValidNumHops(num_hops) /\ final_ok /\ ~dry_run
                 THEN [ReqIdle EXCEPT !.kind = "create", !.pc = "k_chain",
                                      !.num_hops = num_hops,
                                      !.delays = calculate_fibonacci_delays(num_hops)]
                 ELSE ReqIdle
    /\ hist' = Disturb(hist)
    /\ cyc' = DisturbCycle(cyc)
    /\ UNCHANGED <<chainVars, txCount, storeVars, eng, life, vault, loop>>

\* create_chain_route: create_relay_chain(..., total_hops=num_hops)
CreateChain ==
    /\ req.pc = "k_chain"
    /\ chain' = create_relay_chain(req.num_hops)
    /\ req' = [req EXCEPT !.pc = "k_hop", !.i = 0]
    /\ hist' = Disturb(hist)
    /\ cyc' = DisturbCycle(cyc)
    /\ UNCHANGED <<chainVars, txCount, hops, log, last_height, eng, life, vault, loop>>

\* the relay_hops table with the row of hop_number i inserted
InsertHop(hs, i, row) ==
    [k \in DOMAIN hs \cup {i} |-> IF k = i THEN row ELSE hs[k]]

\* create_chain_route: one round of `for i in range(num_hops)`:
\* create_relay_hop(hop_number=i, delay_blocks=delays[i])
CreateHop ==
    /\ req.pc = "k_hop"
    /\ hops' = InsertHop(hops, req.i, create_relay_hop(req.delays[req.i + 1]))
    /\ req' = [req EXCEPT !.i = @ + 1,
                          !.pc = IF req.i + 1 < req.num_hops THEN "k_hop" ELSE "k_log"]
    /\ hist' = Disturb(hist)
    /\ cyc' = DisturbCycle(cyc)
    /\ UNCHANGED <<chainVars, txCount, chain, log, last_height, eng, life, vault, loop>>

\* create_chain_route: generating or encrypting a hop's key raises; the except
\* branch answers 500 and nothing that was inserted is taken back
CreateHopFail ==
    /\ req.pc = "k_hop"
    /\ req' = ReqIdle
    /\ hist' = Disturb(hist)
    /\ cyc' = DisturbCycle(cyc)
    /\ UNCHANGED <<chainVars, txCount, storeVars, eng, life, vault, loop>>

\* create_chain_route: log_transaction(event_type='chain_created')
CreateLog ==
    /\ req.pc = "k_log"
    /\ log' = log_transaction(log, "chain_created")
    /\ req' = ReqIdle
    /\ hist' = Disturb(hist)
    /\ cyc' = DisturbCycle(cyc)
    /\ UNCHANGED <<chainVars, txCount, chain, hops, last_height, eng, life, vault, loop>>

\* cancel_chain_route: get_relay_chain and the status check
CancelableStatus == {"pending", "active"}

CancelCheck ==
    /\ req.kind = "none"
    /\ req' = IF chain.status \in CancelableStatus
              THEN [ReqIdle EXCEPT !.kind = "cancel", !.pc = "x_write"]
              ELSE ReqIdle
    /\ hist' = Disturb(hist)
    /\ cyc' = DisturbCycle(cyc)
    /\ UNCHANGED <<chainVars, txCount, storeVars, eng, life, vault, loop>>

\* cancel_chain_route: update_chain_status(chain_id, 'cancelled')
CancelWrite ==
    /\ req.pc = "x_write"
    /\ chain' = update_chain_status(chain, "cancelled")
    /\ req' = [req EXCEPT !.pc = "x_log"]
    /\ hist' = Disturb(hist)
    /\ cyc' = DisturbCycle(cyc)
    /\ UNCHANGED <<chainVars, txCount, hops, log, last_height, eng, life, vault, loop>>

\* cancel_chain_route: log_transaction(chain_id, 'chain_cancelled')
CancelLog ==
    /\ req.pc = "x_log"
    /\ log' = log_transaction(log, "chain_cancelled")
    /\ req' = ReqIdle
    /\ hist' = Disturb(hist)
    /\ cyc' = DisturbCycle(cyc)
    /\ UNCHANGED <<chainVars, txCount, chain, hops, last_height, eng, life, vault, loop>>

\* activate_chain_route: get_relay_chain and the status check
ActivateCheck ==
    /\ req.kind = "none"
    /\ req' = IF chain.status = "pending"
              THEN [ReqIdle EXCEPT !.kind = "activate", !.pc = "a_write"]
              ELSE ReqIdle
    /\ hist' = Disturb(hist)
    /\ cyc' = DisturbCycle(cyc)
    /\ UNCHANGED <<chainVars, txCount, storeVars, eng, life, vault, loop>>

\* activate_chain_route: update_chain_status(chain_id, 'active')
ActivateWrite ==
    /\ req.pc = "a_write"
    /\ chain' = update_chain_status(chain, "active")
    /\ req' = [req EXCEPT !.pc = "a_log"]
    /\ hist' = Disturb(hist)
    /\ cyc' = DisturbCycle(cyc)
    /\ UNCHANGED <<chainVars, txCount, hops, log, last_height, eng, life, vault, loop>>

\* activate_chain_route: log_transaction(chain_id, 'chain_activated'); the engine
\* is then started again, which leaves the one worker of this model cycling
ActivateLog ==
    /\ req.pc = "a_log"
    /\ log' = log_transaction(log, "chain_activated")
    /\ req' = ReqIdle
    /\ hist' = Disturb(hist)
    /\ cyc' = DisturbCycle(cyc)
    /\ UNCHANGED <<chainVars, txCount, chain, hops, last_height, eng, life, vault, loop>>

\* fix_chain_status: get_relay_chain, get_relay_hops
FixStart ==
    /\ req.kind = "none"
    /\ req' = [ReqIdle EXCEPT !.kind = "fix", !.pc = "f_hop",
                              !.status = chain.status, !.hops = hops]
    /\ hist' = Disturb(hist)
    /\ cyc' = DisturbCycle(cyc)
    /\ UNCHANGED <<chainVars, txCount, storeVars, eng, life, vault, loop>>

\* fix_chain_status: the address downstream of hop i
Downstream(i) == IF i < NumHops - 1 THEN HopAddr(i + 1) ELSE Final

\* fix_chain_status: hop i of the snapshot is unfunded, not relayed, and its
\* downstream address is funded
FixInfersRelayed(hs, i) ==
    /\ AddressBalance(HopAddr(i))[1] = 0
    /\ AddressBalance(HopAddr(i))[2] = 0
    /\ hs[i].status # "relayed"
    /\ \/ AddressBalance(Downstream(i))[1] > 0
       \/ AddressBalance(Downstream(i))[2] > 0

\* fix_chain_status: one round of the loop over the hops
FixHop ==
    /\ req.pc = "f_hop"
    /\ hops' = IF FixInfersRelayed(req.hops, req.i)
               THEN [hops EXCEPT ![req.i] = update_hop_status(@, "relayed")]
               ELSE hops
    /\ req' = [req EXCEPT !.i = @ + 1,
                          !.pc = IF req.i + 1 < NumHops THEN "f_hop" ELSE "f_final"]
    /\ hist' = Disturb(hist)
    /\ cyc' = DisturbCycle(cyc)
    /\ UNCHANGED <<chainVars, txCount, chain, log, last_height, eng, life, vault, loop>>

\* fix_chain_status: where the handler goes once the chain row is dealt with
FixMarkPc(hs, k) == IF NextUnrelayed(hs, k) < NumHops THEN "f_mark" ELSE "none"

\* fix_chain_status: the handler's locals at pc p, or no handler when it returns
FixAt(r, p, k) ==
    IF p = "none" THEN ReqIdle ELSE [r EXCEPT !.pc = p, !.i = NextUnrelayed(r.hops, k)]

\* fix_chain_status: final_bal is read; the chain is completed when it is confirmed
FixFinalFunded(bal) == bal[1] > 0

FixFinal ==
    /\ req.pc = "f_final"
    /\ req' = IF FixFinalFunded(AddressBalance(Final))
              THEN IF req.status # "completed"
                   THEN [req EXCEPT !.pc = "f_status",
                                    !.final_bal = AddressBalance(Final)[1]]
                   ELSE FixAt(req, FixMarkPc(req.hops, 0), 0)
              ELSE ReqIdle
    /\ hist' = Disturb(hist)
    /\ cyc' = DisturbCycle(cyc)
    /\ UNCHANGED <<chainVars, txCount, storeVars, eng, life, vault, loop>>

\* fix_chain_status: update_chain_status(chain_id, 'completed')
FixStatus ==
    /\ req.pc = "f_status"
    /\ chain' = update_chain_status(chain, "completed")
    /\ req' = [req EXCEPT !.pc = "f_amt"]
    /\ hist' = Disturb(hist)
    /\ cyc' = DisturbCycle(cyc)
    /\ UNCHANGED <<chainVars, txCount, hops, log, last_height, eng, life, vault, loop>>

\* fix_chain_status: update_chain_amounts(chain_id, amount_sent_sats=final_bal[0])
FixAmounts ==
    /\ req.pc = "f_amt"
    /\ chain' = update_chain_amounts(chain, NULL, req.final_bal, NULL, NULL)
    /\ req' = FixAt(req, FixMarkPc(req.hops, 0), 0)
    /\ hist' = Disturb(hist)
    /\ cyc' = DisturbCycle(cyc)
    /\ UNCHANGED <<chainVars, txCount, hops, log, last_height, eng, life, vault, loop>>

\* fix_chain_status: update_hop_status(hop['id'], 'relayed') for the next hop the
\* snapshot shows not relayed
FixMark ==
    /\ req.pc = "f_mark"
    /\ hops' = [hops EXCEPT ![req.i] = update_hop_status(@, "relayed")]
    /\ req' = FixAt(req, FixMarkPc(req.hops, req.i + 1), req.i + 1)
    /\ hist' = Disturb(hist)
    /\ cyc' = DisturbCycle(cyc)
    /\ UNCHANGED <<chainVars, txCount, chain, log, last_height, eng, life, vault, loop>>

\* manual_relay_chain: get_relay_chain, get_relay_hops
RetryStart ==
    /\ req.kind = "none"
    /\ req' = [ReqIdle EXCEPT !.kind = "retry", !.pc = "m_block", !.hops = hops]
    /\ hist' = Disturb(hist)
    /\ cyc' = DisturbCycle(cyc)
    /\ UNCHANGED <<chainVars, txCount, storeVars, eng, life, vault, loop>>

\* manual_relay_chain: current_block = api.get_block_height()
RetryBlock ==
    /\ req.pc = "m_block"
    /\ req' = [req EXCEPT !.pc = "m_addr", !.block = tip,
                          !.start = [a \in Addr |-> AddressBalance(a)]]
    /\ hist' = Disturb(hist)
    /\ cyc' = DisturbCycle(cyc)
    /\ UNCHANGED <<chainVars, txCount, storeVars, eng, life, vault, loop>>

\* manual_relay_chain: destinations[i], the address that entry i of `addresses` pays
ManualDestination(i) == IF i < NumHops THEN HopAddr(i) ELSE Final

\* manual_relay_chain: the loop goes on to the next address, or returns
RetryNext_NoAppend(r, result) ==
    [r EXCEPT !.i = @ + 1,
              !.pc = IF r.i + 1 <= NumHops THEN "m_addr" ELSE "m_done"]
RetryNext(r, result) ==
    [r EXCEPT !.i = @ + 1,
              !.pc = IF r.i + 1 <= NumHops THEN "m_addr" ELSE "m_done",
              !.results = Append(@, result)]

\* manual_relay_chain: one round of the loop up to the broadcast
RetryAddress ==
    /\ req.pc = "m_addr"
    /\ LET confirmed == AddressBalance(req.i)[1]
           actual_balance == LiveBalance(req.i)
           fee == MANUAL_FEE
           amount == actual_balance - fee
       IN
        IF confirmed > 0
        THEN IF amount <= 0
             THEN /\ req' = RetryNext(req, "skipped")
                  /\ UNCHANGED <<unconf, txCount>>
             ELSE /\ unconf' = BroadcastUnconf(req.i, ManualDestination(req.i),
                                               actual_balance, amount)
                  /\ txCount' = txCount + 1
                  /\ req' = [req EXCEPT
                         !.pc = IF req.i = Intake THEN "m_recv" ELSE "m_rel",
                         !.tx = [txid |-> txCount + 1, amount |-> amount,
                                 fee |-> fee, balance |-> actual_balance]]
        ELSE /\ req' = RetryNext(req, "no_funds")
             /\ UNCHANGED <<unconf, txCount>>
    /\ hist' = Disturb(hist)
    /\ cyc' = DisturbCycle(cyc)
    /\ UNCHANGED <<tip, conf, oracle, storeVars, eng, life, vault, loop>>

\* manual_relay_chain: decryption, the balance query or the broadcast raises
RetryAddressFail ==
    /\ req.pc = "m_addr"
    /\ AddressBalance(req.i)[1] > 0
    /\ req' = RetryNext(req, "error")
    /\ hist' = Disturb(hist)
    /\ cyc' = DisturbCycle(cyc)
    /\ UNCHANGED <<chainVars, txCount, storeVars, eng, life, vault, loop>>

\* manual_relay_chain: api.get_block_height() or the api.get_address_balance of
\* a round raises; neither is inside a try, the request fails with no report
RetryAbort ==
    /\ req.pc \in {"m_block", "m_addr"}
    /\ req' = ReqIdle
    /\ hist' = Disturb(hist)
    /\ cyc' = DisturbCycle(cyc)
    /\ UNCHANGED <<chainVars, txCount, storeVars, eng, life, vault, loop>>

\* manual_relay_chain: update_chain_amounts(chain_id, amount_received_sats=actual_balance)
RetryWriteReceived ==
    /\ req.pc = "m_recv"
    /\ chain' = update_chain_amounts(chain, req.tx.balance, NULL, NULL, NULL)
    /\ req' = [req EXCEPT !.pc = "m_fund"]
    /\ hist' = Disturb(hist)
    /\ cyc' = DisturbCycle(cyc)
    /\ UNCHANGED <<chainVars, txCount, hops, log, last_height, eng, life, vault, loop>>

\* manual_relay_chain: update_hop_relayed on hop_index = i - 1
RetryWriteRelayed ==
    /\ req.pc = "m_rel"
    /\ hops' = [hops EXCEPT ![req.i - 1] =
                    update_hop_relayed(@, req.tx.txid, req.tx.amount, req.tx.fee)]
    /\ req' = [req EXCEPT !.pc = IF req.i - 1 < NumHops - 1 THEN "m_fund" ELSE "m_log"]
    /\ hist' = Disturb(hist)
    /\ cyc' = DisturbCycle(cyc)
    /\ UNCHANGED <<chainVars, txCount, chain, log, last_height, eng, life, vault, loop>>

\* manual_relay_chain: update_hop_funded on hops[0] after the intake, on
\* hops[hop_index + 1] after a hop
RetryWriteFunded ==
    /\ req.pc = "m_fund"
    /\ hops' = [hops EXCEPT ![req.i] =
                    update_hop_funded(@, req.tx.txid, req.tx.amount, req.block, req.block)]
    /\ req' = [req EXCEPT !.pc = "m_log"]
    /\ hist' = Disturb(hist)
    /\ cyc' = DisturbCycle(cyc)
    /\ UNCHANGED <<chainVars, txCount, chain, log, last_height, eng, life, vault, loop>>

\* manual_relay_chain: log_transaction(event_type='manual_relay')
RetryWriteLog ==
    /\ req.pc = "m_log"
    /\ log' = log_transaction(log, "manual_relay")
    /\ req' = RetryNext(req, "success")
    /\ hist' = Disturb(hist)
    /\ cyc' = DisturbCycle(cyc)
    /\ UNCHANGED <<chainVars, txCount, chain, hops, last_height, eng, life, vault, loop>>

\* manual_relay_chain returns {'chain_id': ..., 'results': results}
RetryReturn ==
    /\ req.pc = "m_done"
    /\ req' = ReqIdle
    /\ hist' = Disturb(hist)
    /\ cyc' = DisturbCycle(cyc)
    /\ UNCHANGED <<chainVars, txCount, storeVars, eng, life, vault, loop>>

\* -------------------------------------------------------- engine lifecycle
\* `eng` follows a worker through one _process_cycle; `life` follows the
\* RelayEngine objects of the process, the threads their start() created and
\* the request threads that start and stop them.  The specifications of the
\* chain's life keep `life` still, those of the lifecycle keep the chain still.
relayVars == <<tip, conf, unconf, oracle, txCount, chain, hops, log, last_height,
               eng, req, cyc, hist, loop>>

Handlers == 1 .. NumHandlers

\* the routes a request is for: one that calls start_engine_for_network
\* (switch_network, activate_chain, start_engine), stop_engine, any other
Routes == {"start", "stop", "other"}

\* RelayEngine.__init__
NewEngine == [is_running |-> FALSE, stop_event |-> FALSE, thread |-> 0]

\* the thread start() creates for engine e, at the top of _run's loop;
\* `stopped`: stop() has set the flag of its engine since it started (history)
NewThread(e) == [engine |-> e, pc |-> "loop", stopped |-> FALSE]

IdleHandler == [pc |-> "idle", route |-> "none", ret |-> "none"]

\* create_app: app.relay_engine = None, app.engine_lock = threading.Lock()
LifeInit ==
    [engines |-> << >>, threads |-> << >>, relay_engine |-> 0,
     engine_lock |-> 0, h |-> [x \in Handlers |-> IdleHandler]]

\* `app.relay_engine and app.relay_engine.is_running`
EngineRunning(l) ==
    l.relay_engine # 0 /\ l.engines[l.relay_engine].is_running

\* RelayEngine.start: nothing if is_running, else the flag is cleared, a new
\* thread runs _run and is_running is set
start(l, e) ==
    IF l.engines[e].is_running THEN l
    ELSE [l EXCEPT
            !.engines[e] = [is_running |-> TRUE, stop_event |-> FALSE,
                            thread |-> Len(l.threads) + 1],
            !.threads = Append(@, NewThread(e))]

\* RelayEngine.stop, first statement: self._stop_event.set()
set_stop_event(l, e) ==
    [l EXCEPT
        !.engines[e].stop_event = TRUE,
        !.threads = [t \in DOMAIN @ |->
            IF @[t].engine = e /\ @[t].pc # "ended"
            THEN [@[t] EXCEPT !.stopped = TRUE] ELSE @[t]]]

\* start_engine_for_network: `app.relay_engine = RelayEngine(network, key)`,
\* the object start() is then called on
RelayEngine_Reuse(l) ==
    IF l.relay_engine # 0 THEN l
    ELSE [l EXCEPT !.engines = Append(@, NewEngine),
                   !.relay_engine = Len(l.engines) + 1]
RelayEngine(l) ==
    [l EXCEPT !.engines = Append(@, NewEngine),
              !.relay_engine = Len(l.engines) + 1]

\* a request arrives; ensure_engine_running (before_request) reads
\* app.relay_engine outside the lock and starts the engine if it is not running
RequestArrives(x, r) ==
    /\ life.h[x].pc = "idle"
    /\ life' = [life EXCEPT !.h[x] =
                 IF EngineRunning(life)
                 THEN [pc |-> "route", route |-> r, ret |-> "none"]
                 ELSE [pc |-> "lock", route |-> r, ret |-> "route"]]
    /\ UNCHANGED <<relayVars, vault>>

\* a route that calls start_engine_for_network
RouteStart(x) ==
    /\ life.h[x].pc = "route"
    /\ life.h[x].route = "start"
    /\ life' = [life EXCEPT !.h[x].pc = "lock", !.h[x].ret = "idle"]
    /\ UNCHANGED <<relayVars, vault>>

\* a route that does not touch the engine
RouteOther(x) ==
    /\ life.h[x].pc = "route"
    /\ life.h[x].route = "other"
    /\ life' = [life EXCEPT !.h[x] = IdleHandler]
    /\ UNCHANGED <<relayVars, vault>>

\* stop_engine: under the lock, 400 if no engine runs, else relay_engine.stop()
RouteStop(x) ==
    /\ life.h[x].pc = "route"
    /\ life.h[x].route = "stop"
    /\ life.engine_lock = 0
    /\ life' =
         IF EngineRunning(life)
         THEN [set_stop_event(life, life.relay_engine) EXCEPT
                 !.engine_lock = x, !.h[x].pc = "join", !.h[x].ret = "idle"]
         ELSE [life EXCEPT !.h[x] = IdleHandler]
    /\ UNCHANGED <<relayVars, vault>>

\* start_engine_for_network: `with app.engine_lock`, then stop() of a running
\* engine sets its flag
StartLock(x) ==
    /\ life.h[x].pc = "lock"
    /\ life.engine_lock = 0
    /\ Len(life.engines) < MaxEngines
    /\ life' =
         IF EngineRunning(life)
         THEN [set_stop_event(life, life.relay_engine) EXCEPT
                 !.engine_lock = x, !.h[x].pc = "join"]
         ELSE [life EXCEPT !.engine_lock = x, !.h[x].pc = "new"]
    /\ UNCHANGED <<relayVars, vault>>

\* RelayEngine.stop: self._thread.join(timeout=10) returns when the worker has
\* ended, or after 10 s with the worker still inside its cycle; then
\* is_running = False.  stop_engine releases the lock and returns
StopJoin(x) ==
    /\ life.h[x].pc = "join"
    /\ LET e == life.relay_engine
           t == life.engines[e].thread
       IN /\ t = 0 \/ life.threads[t].pc \in {"ended", "cycle"}
          /\ life' =
               IF life.h[x].route = "stop" /\ life.h[x].ret = "idle"
               THEN [life EXCEPT !.engines[e].is_running = FALSE,
                                 !.engine_lock = 0, !.h[x] = IdleHandler]
               ELSE [life EXCEPT !.engines[e].is_running = FALSE,
                                 !.h[x].pc = "new"]
    /\ UNCHANGED <<relayVars, vault>>

\* start_engine_for_network: the new RelayEngine, its start(), the lock
\* released; before_request goes on to the route
StartNew(x) ==
    /\ life.h[x].pc = "new"
    /\ LET l == RelayEngine(life)
       IN life' = [start(l, l.relay_engine) EXCEPT
                     !.engine_lock = 0,
                     !.h[x] = IF life.h[x].ret = "route"
                              THEN [life.h[x] EXCEPT !.pc = "route", !.ret = "none"]
                              ELSE IdleHandler]
    /\ UNCHANGED <<relayVars, vault>>

\* _run: `while not self._stop_event.is_set()`, then _process_cycle begins
WorkerLoop(t) ==
    /\ t \in DOMAIN life.threads
    /\ life.threads[t].pc = "loop"
    /\ life' = [life EXCEPT !.threads[t].pc =
                 IF life.engines[life.threads[t].engine].stop_event
                 THEN "ended" ELSE "cycle"]
    /\ UNCHANGED <<relayVars, vault>>

\* _run: _process_cycle returned or raised
WorkerCycleEnd(t) ==
    /\ t \in DOMAIN life.threads
    /\ life.threads[t].pc = "cycle"
    /\ life' = [life EXCEPT !.threads[t].pc = "wait"]
    /\ UNCHANGED <<relayVars, vault>>

\* _run: self._stop_event.wait(30) returns, the flag set or 30 s gone
WorkerWake(t) ==
    /\ t \in DOMAIN life.threads
    /\ life.threads[t].pc = "wait"
    /\ life' = [life EXCEPT !.threads[t].pc = "loop"]
    /\ UNCHANGED <<relayVars, vault>>

\* ---------------------------------------------------------------- key vault
\* encryption.KeyEncryption.  Strings are sequences of code points and byte
\* strings sequences of symbols: a raw byte, a byte of AES-GCM ciphertext or a
\* byte of its tag.  PBKDF2 and AES-GCM are ideal: a key is told by its
\* password and salt, a ciphertext byte by key, nonce, position and plaintext
\* byte, and a tag by key, nonce and the ciphertext it authenticates.
Raw(n) == [kind |-> "raw", v |-> n]

\* s[a:b] of Python, a and b counted from 0
Slice(s, a, b) ==
    LET hi == IF b < Len(s) THEN b ELSE Len(s)
    IN IF a >= hi THEN << >> ELSE SubSeq(s, a + 1, hi)

\* a surrogate code point, which str.encode('utf-8') refuses
Surrogate(c) == c >= 55296 /\ c <= 57343
Encodable(s) == \A i \in DOMAIN s : ~Surrogate(s[i])

\* str.encode('utf-8') of one code point below 65536
utf8_char(c) ==
    IF c < 128 THEN <<Raw(c)>>
    ELSE IF c < 2048 THEN <<Raw(192 + (c \div 64)), Raw(128 + (c % 64))>>
    ELSE <<Raw(224 + (c \div 4096)), Raw(128 + ((c \div 64) % 64)),
           Raw(128 + (c % 64))>>

RECURSIVE utf8_encode(_)
utf8_encode(s) ==
    IF s = << >> THEN << >> ELSE utf8_char(Head(s)) \o utf8_encode(Tail(s))

\* bytes.decode('utf-8'): the string, or Malformed for bytes that are no UTF-8
Malformed == <<-1>>
RECURSIVE utf8_decode(_)
utf8_decode(b) ==
    IF b = << >> THEN << >>
    ELSE LET h == Head(b)
             \* a continuation byte 10xxxxxx
             Continuation(x) == x.kind = "raw" /\ x.v >= 128 /\ x.v < 192
             n == IF h.kind # "raw" THEN 0
                  ELSE IF h.v < 128 THEN 1
                  ELSE IF h.v >= 192 /\ h.v < 224 THEN 2
                  ELSE IF h.v >= 224 /\ h.v < 240 THEN 3
                  ELSE 0
         IN IF n = 0 \/ Len(b) < n THEN Malformed
            ELSE IF \E i \in 2 .. n : ~Continuation(b[i]) THEN Malformed
            ELSE LET c == IF n = 1 THEN h.v
                          ELSE IF n = 2 THEN (h.v - 192) * 64 + (b[2].v - 128)
                          ELSE (h.v - 224) * 4096 + (b[2].v - 128) * 64
                               + (b[3].v - 128)
                     rest == utf8_decode(Slice(b, n, Len(b)))
                 IN IF rest = Malformed \/ Surrogate(c) THEN Malformed
                    ELSE <<c>> \o rest

\* base64.b64encode: one text symbol per byte; base64.b64decode without
\* validate=True discards the characters that are not of the alphabet
b64encode(data) == [i \in DOMAIN data |-> [kind |-> "b64", of |-> data[i]]]
b64decode(text) ==
    LET IsAlphabet(c) == c.kind = "b64"
        kept == SelectSeq(text, IsAlphabet)
    IN [i \in DOMAIN kept |-> kept[i].of]

\* derive_key: PBKDF2-HMAC-SHA256 of password.encode('utf-8') and salt
derive_key_SaltOnly(password, salt) ==
    [kdf |-> "pbkdf2", password |-> << >>, salt |-> salt]
derive_key(password, salt) ==
    [kdf |-> "pbkdf2", password |-> utf8_encode(password), salt |-> salt]

\* AESGCM(key).encrypt(nonce, data, None): the ciphertext and its 16-byte tag
GcmTag(key, nonce, body) ==
    [j \in 1 .. TAG_LENGTH |->
        [kind |-> "tag", key |-> key, nonce |-> nonce, body |-> body, j |-> j]]
aesgcm_encrypt(key, nonce, data) ==
    LET body == [i \in DOMAIN data |->
                    [kind |-> "ct", key |-> key, nonce |-> nonce, i |-> i,
                     v |-> data[i].v]]
    IN body \o GcmTag(key, nonce, body)

\* AESGCM(key).decrypt(nonce, ciphertext, None): the plaintext bytes, or
\* InvalidTag
InvalidTag == <<Raw(-1)>>
aesgcm_decrypt(key, nonce, ciphertext) ==
    IF Len(ciphertext) < TAG_LENGTH THEN InvalidTag
    ELSE LET body == Slice(ciphertext, 0, Len(ciphertext) - TAG_LENGTH)
             tag == Slice(ciphertext, Len(ciphertext) - TAG_LENGTH, Len(ciphertext))
         IN IF tag # GcmTag(key, nonce, body) THEN InvalidTag
            ELSE [i \in DOMAIN body |-> Raw(body[i].v)]

\* what encrypt and decrypt raise
EncryptFailed == [ok |-> FALSE, error |-> "Encryption failed"]
DecryptFailed ==
    [ok |-> FALSE, error |-> "Decryption failed - wrong password or corrupted data"]

\* KeyEncryption.encrypt, with the salt and nonce os.urandom returned
encrypt(plaintext, password, salt, nonce) ==
    IF ~Encodable(password) \/ ~Encodable(plaintext) THEN EncryptFailed
    ELSE [ok |-> TRUE,
          record |-> b64encode(salt \o nonce \o
                       aesgcm_encrypt(derive_key(password, salt), nonce,
                                      utf8_encode(plaintext)))]

\* decrypt: nonce = data[SALT_LENGTH:SALT_LENGTH + 12]
nonce_of_Short(data) == Slice(data, SALT_LENGTH, SALT_LENGTH + NONCE_LENGTH - 1)
nonce_of(data) == Slice(data, SALT_LENGTH, SALT_LENGTH + NONCE_LENGTH)

\* KeyEncryption.decrypt: salt = data[:SALT_LENGTH], ciphertext =
\* data[SALT_LENGTH + 12:]; every exception becomes the one EncryptionError
decrypt(encrypted_data, password) ==
    LET data == b64decode(encrypted_data)
    IN IF ~Encodable(password) THEN DecryptFailed
       ELSE LET key == derive_key(password, Slice(data, 0, SALT_LENGTH))
                ciphertext == Slice(data, SALT_LENGTH + NONCE_LENGTH, Len(data))
                plain == aesgcm_decrypt(key, nonce_of(data), ciphertext)
            IN IF plain = InvalidTag THEN DecryptFailed
               ELSE IF utf8_decode(plain) = Malformed THEN DecryptFailed
               ELSE [ok |-> TRUE, plaintext |-> utf8_decode(plain)]

\* the longest record: salt, nonce, three bytes per code point, tag
MaxRecord == SALT_LENGTH + NONCE_LENGTH + 3 * MaxText + TAG_LENGTH

\* the passwords tried: "A" and "A" followed by e with acute accent
Passwords == {<<65>>, <<65, 233>>}

\* no secret in the vault
VaultIdle ==
    [pc |-> "idle", plaintext |-> << >>, password |-> << >>, salt |-> << >>,
     nonce |-> << >>, record |-> << >>, original |-> << >>, altered |-> "none",
     tried |-> << >>, out |-> EncryptFailed]

\* a secret of at most MaxText code points, each 'A', e with acute accent (two
\* bytes in UTF-8) or a lone surrogate; a password; and the salt and nonce
\* os.urandom will return
VaultInputs ==
    LET CodePoints == {65, 233, 55296}
        Strings == UNION {[1 .. n -> CodePoints] : n \in 0 .. MaxText}
        Salts == {[i \in 1 .. SALT_LENGTH |-> Raw(b)] : b \in {0, 1}}
        Nonces == {[i \in 1 .. NONCE_LENGTH |-> Raw(b)] : b \in {0, 1}}
    IN {[VaultIdle EXCEPT !.pc = "new", !.plaintext = m, !.password = pw,
                          !.salt = s, !.nonce = n] :
           m \in Strings, pw \in Passwords, s \in Salts, n \in Nonces}

\* encrypt(plaintext, password); the record is stored
VaultEncrypt ==
    /\ vault.pc = "new"
    /\ LET r == encrypt(vault.plaintext, vault.password, vault.salt, vault.nonce)
       IN vault' = IF r.ok
                   THEN [vault EXCEPT !.pc = "stored", !.record = r.record,
                                      !.original = r.record]
                   ELSE [vault EXCEPT !.pc = "failed", !.out = r]
    /\ UNCHANGED <<relayVars, life>>

\* the stored record is altered once: a character replaced, the record cut
\* short, or a character outside the base64 alphabet inserted
VaultTamper(how, p) ==
    /\ vault.pc = "stored"
    /\ vault.altered = "none"
    /\ p \in 1 .. Len(vault.record)
    /\ vault' = [vault EXCEPT
         !.altered = how,
         !.record =
            IF how = "replace"
            THEN [@ EXCEPT ![p] = [kind |-> "b64", of |-> Raw(255)]]
            ELSE IF how = "truncate" THEN SubSeq(@, 1, p - 1)
            ELSE SubSeq(@, 1, p - 1) \o <<[kind |-> "junk"]>> \o SubSeq(@, p, Len(@))]
    /\ UNCHANGED <<relayVars, life>>

\* decrypt(record, pw)
VaultDecrypt(pw) ==
    /\ vault.pc = "stored"
    /\ vault' = [vault EXCEPT !.pc = "done", !.tried = pw,
                              !.out = decrypt(vault.record, pw)]
    /\ UNCHANGED <<relayVars, life>>

\* ------------------------------------------------------------ cycle loop
\* `loop` follows one worker through _run and _process_cycle over all the
\* chains of its network: the chains the cycle loaded, the ones it has
\* processed, and what the processing of each did.  `eng` is the same code
\* seen on one chain, Store call by Store call.
Chains == 1 .. NumChains

\* the password the engine was started with
EnginePassword == <<65>>

\* relay_chains.intake_privkey_enc of a chain: written by create_chain under
\* the engine's password, under another password, or altered since
KeyKinds == {"good", "other_password", "altered"}
StoredKey(kind) ==
    LET salt == [i \in 1 .. SALT_LENGTH |-> Raw(0)]
        nonce == [i \in 1 .. NONCE_LENGTH |-> Raw(1)]
        pw == IF kind = "other_password" THEN <<65, 233>> ELSE EnginePassword
        r == encrypt(<<65>>, pw, salt, nonce).record
    IN IF kind = "altered"
       THEN [r EXCEPT ![Len(r)] = [kind |-> "b64", of |-> Raw(255)]]
       ELSE r

\* no worker in the loop
LoopIdle ==
    [pc |-> "none", status |-> [c \in Chains |-> "pending"],
     key |-> [c \in Chains |-> "good"], funded |-> [c \in Chains |-> FALSE],
     block |-> 0, active |-> << >>, i |-> 1, done |-> {}, bcast |-> {},
     errors |-> [c \in Chains |-> 0],
     processing_status |-> [c \in Chains |-> ""], last_error |-> FALSE, fatal |-> 0,
     ncycles |-> 0, stop |-> FALSE]

\* a worker about to enter _run, the chains of its network active or not and
\* their keys as stored
LoopInputs ==
    {[LoopIdle EXCEPT !.pc = "run", !.status = s, !.key = k] :
        s \in [Chains -> {"active", "pending"}], k \in [Chains -> KeyKinds]}

\* _process_cycle: active_chains, in the order get_all_relay_chains returns
\* the rows (created_at DESC: the newest chain first)
RECURSIVE ActiveFrom(_, _)
ActiveFrom(l, c) ==
    IF c < 1 THEN << >>
    ELSE (IF l.status[c] = "active" THEN <<c>> ELSE << >>) \o ActiveFrom(l, c - 1)
active_chains(l) == ActiveFrom(l, NumChains)

\* _run: the except branch keeps the message; the loop goes on to its wait
RunCaught(l) ==
    [l EXCEPT !.last_error = TRUE, !.fatal = @ + 1, !.pc = "wait"]

\* _process_cycle: the for loop goes on to the next chain, or to
\* update_block_height after the last one
AfterChain_Abort(l, c) ==
    [l EXCEPT !.done = @ \cup {c}, !.pc = "height"]
AfterChain(l, c) ==
    [l EXCEPT !.done = @ \cup {c}, !.i = @ + 1,
              !.pc = IF l.i < Len(l.active) THEN "chain" ELSE "height"]

\* _run: `while not self._stop_event.is_set()`, then _process_cycle begins
CycleBegin ==
    /\ loop.pc = "run"
    /\ loop.stop \/ loop.ncycles < MaxCycles
    /\ loop' = IF loop.stop THEN [loop EXCEPT !.pc = "ended"]
               ELSE [loop EXCEPT !.pc = "tip", !.ncycles = @ + 1, !.active = << >>,
                                 !.i = 1, !.done = {}, !.bcast = {},
                                 !.errors = [c \in Chains |-> 0]]
    /\ UNCHANGED <<chainVars, txCount, storeVars, eng, req, cyc, hist, life, vault>>

\* _process_cycle: get_block_height
CycleTip ==
    /\ loop.pc = "tip"
    /\ loop' = [loop EXCEPT !.pc = "load", !.block = tip]
    /\ UNCHANGED <<chainVars, txCount, storeVars, eng, req, cyc, hist, life, vault>>

\* _process_cycle: get_block_height raises; the cycle returns
CycleTipFail ==
    /\ loop.pc = "tip"
    /\ loop' = [loop EXCEPT !.pc = "wait", !.last_error = FALSE]
    /\ UNCHANGED <<chainVars, txCount, storeVars, eng, req, cyc, hist, life, vault>>

\* _process_cycle: get_all_relay_chains, the active ones kept
CycleLoad ==
    /\ loop.pc = "load"
    /\ loop' = [loop EXCEPT !.active = active_chains(loop),
                            !.pc = IF active_chains(loop) = << >>
                                   THEN "height" ELSE "chain"]
    /\ UNCHANGED <<chainVars, txCount, storeVars, eng, req, cyc, hist, life, vault>>

\* _process_cycle: get_all_relay_chains raises (the Store fails); nothing in
\* _process_cycle catches it
CycleLoadFail ==
    /\ loop.pc = "load"
    /\ loop.fatal < MaxFatal
    /\ loop' = RunCaught(loop)
    /\ UNCHANGED <<chainVars, txCount, storeVars, eng, req, cyc, hist, life, vault>>

\* _process_chain on a chain none of whose addresses holds confirmed funds
CycleChainQuiet ==
    /\ loop.pc = "chain"
    /\ LET c == loop.active[loop.i] IN
        /\ ~loop.funded[c]
        /\ loop' = AfterChain([loop EXCEPT !.processing_status[c] = "Waiting"], c)
    /\ UNCHANGED <<chainVars, txCount, storeVars, eng, req, cyc, hist, life, vault>>

\* _process_chain on a funded chain: _relay_from_location decrypts the source
\* key and broadcasts the sweep; when decrypt raises, its except branch logs
\* relay_error and returns
CycleChainRelay ==
    /\ loop.pc = "chain"
    /\ LET c == loop.active[loop.i] IN
        /\ loop.funded[c]
        /\ loop' = IF decrypt(StoredKey(loop.key[c]), EnginePassword) = DecryptFailed
                   THEN AfterChain([loop EXCEPT !.errors[c] = @ + 1,
                                      !.processing_status[c] = "Relay failed"], c)
                   ELSE AfterChain([loop EXCEPT !.bcast = @ \cup {c},
                                      !.funded[c] = FALSE,
                                      !.processing_status[c] = "Sent"], c)
    /\ UNCHANGED <<chainVars, txCount, storeVars, eng, req, cyc, hist, life, vault>>

\* _process_chain raises (a balance query fails); the except branch of the
\* for loop logs it and sets processing_status to the error
CycleChainRaise ==
    /\ loop.pc = "chain"
    /\ LET c == loop.active[loop.i] IN
        loop' = AfterChain([loop EXCEPT !.processing_status[c] = "Error"], c)
    /\ UNCHANGED <<chainVars, txCount, storeVars, eng, req, cyc, hist, life, vault>>

\* _process_cycle: update_block_height; _run sets last_error = None
CycleHeight ==
    /\ loop.pc = "height"
    /\ last_height' = update_block_height(last_height, EngineNetwork, loop.block)
    /\ loop' = [loop EXCEPT !.pc = "wait", !.last_error = FALSE]
    /\ UNCHANGED <<chainVars, txCount, chain, hops, log, eng, req, cyc, hist,
                   life, vault>>

\* _process_cycle: update_block_height raises (the Store fails)
CycleHeightFail ==
    /\ loop.pc = "height"
    /\ loop.fatal < MaxFatal
    /\ loop' = RunCaught(loop)
    /\ UNCHANGED <<chainVars, txCount, storeVars, eng, req, cyc, hist, life, vault>>

\* _run: _stop_event.wait(30) returns
CycleWake ==
    /\ loop.pc = "wait"
    /\ loop' = [loop EXCEPT !.pc = "run"]
    /\ UNCHANGED <<chainVars, txCount, storeVars, eng, req, cyc, hist, life, vault>>

\* a payment to an address of an active chain confirms
CycleFunds(c) ==
    /\ loop.pc # "none"
    /\ loop.status[c] = "active"
    /\ ~loop.funded[c]
    /\ loop' = [loop EXCEPT !.funded[c] = TRUE]
    /\ UNCHANGED <<chainVars, txCount, storeVars, eng, req, cyc, hist, life, vault>>

\* stop(): _stop_event.set()
CycleStop ==
    /\ loop.pc \notin {"none", "ended"}
    /\ ~loop.stop
    /\ loop' = [loop EXCEPT !.stop = TRUE]
    /\ UNCHANGED <<chainVars, txCount, storeVars, eng, req, cyc, hist, life, vault>>

\* ----------------------------------------------------------- specification
InitHistory(track) ==
    /\ cyc = NewCycle
    /\ hist = [track |-> track, deposits |-> 0, crashes |-> 0,
               clean |-> FALSE, ran |-> FALSE, crashAfterIntake |-> FALSE]

\* the block chain, the oracle and the processes when the Store is opened
InitWorld ==
    /\ tip = 0
    /\ conf = [a \in Addr |-> 0]
    /\ unconf = [a \in Addr |-> 0]
    /\ oracle \in OracleStates
    /\ txCount = 0
    /\ last_height = [n \in Networks |-> NULL]
    /\ eng = EngIdle
    /\ req = ReqIdle
    /\ life = LifeInit

\* the Store holds one chain of NumHops hops that create_chain_route created
InitProgram ==
    /\ InitWorld
    /\ chain = NewChain
    /\ hops = [k \in HopIdx |-> NewHop(k)]
    /\ log = [e \in EventTypes |-> IF e = "chain_created" THEN 1 ELSE 0]
    /\ vault = VaultIdle
    /\ loop = LoopIdle

\* the Store as init_db leaves it: no chain yet
InitEmpty ==
    /\ InitWorld
    /\ chain = NoChain
    /\ hops = NoHops
    /\ log = [e \in EventTypes |-> 0]
    /\ vault = VaultIdle
    /\ loop = LoopIdle
    /\ InitHistory(FALSE)

Init == InitProgram /\ InitHistory(FALSE)

InitIdem == InitProgram /\ InitHistory(TRUE)

Environment ==
    \/ \E a \in DepositTargets, amt \in DepositAmounts : Deposit(a, amt)
    \/ Mine

\* the same with payments to the hop addresses as well
EnvironmentAny ==
    \/ \E a \in Addr, amt \in DepositAmounts : Deposit(a, amt)
    \/ Mine

Engine ==
    \/ EngineCycleStart
    \/ EngineTipFail
    \/ EngineFind
    \/ EngineFindFail
    \/ EngineRelay
    \/ EngineRelayFail
    \/ EngineWriteReceived
    \/ EngineWriteRelayed
    \/ EngineWriteFunded
    \/ EngineWriteProgress
    \/ EngineWriteLog
    \/ EngineCompleteAmounts
    \/ EngineCompleteFail
    \/ EngineCompleteStatus
    \/ EngineCompleteMark
    \/ EngineCompleteLog
    \/ EngineTip

Activate == ActivateCheck \/ ActivateWrite \/ ActivateLog

Cancel == CancelCheck \/ CancelWrite \/ CancelLog

Fix == FixStart \/ FixHop \/ FixFinal \/ FixStatus \/ FixAmounts \/ FixMark

Retry ==
    \/ RetryStart
    \/ RetryBlock
    \/ RetryAddress
    \/ RetryAddressFail
    \/ RetryAbort
    \/ RetryWriteReceived
    \/ RetryWriteRelayed
    \/ RetryWriteFunded
    \/ RetryWriteLog
    \/ RetryReturn

Crash == EngineCrash

Create == CreateCheck \/ CreateChain \/ CreateHop \/ CreateHopFail \/ CreateLog

\* the chain's life: payments to the intake and the final address, blocks, the
\* engine worker, and the requests that start and stop the chain
Next == Environment \/ Engine \/ Activate \/ Cancel

Spec == Init /\ [][Next]_vars

\* the same with the history of undisturbed cycles kept
SpecIdem == InitIdem /\ [][Next]_vars

\* the engine worker with the process dying and starting again
NextCrash == Environment \/ Engine \/ Activate \/ Crash

SpecCrash == Init /\ [][NextCrash]_vars

\* the engine worker with payments arriving at any address of the chain
NextAny == EnvironmentAny \/ Engine \/ Activate

SpecAny == Init /\ [][NextAny]_vars

\* the engine worker with payments hardly larger than one fee
EnvironmentSmall ==
    \/ \E a \in DepositTargets, amt \in SmallAmounts : Deposit(a, amt)
    \/ Mine

NextSmall == EnvironmentSmall \/ Engine \/ Activate

SpecSmall == Init /\ [][NextSmall]_vars

\* the steps of a cycle that call nothing outside the Store
EngineStoreSteps ==
    \/ EngineWriteReceived
    \/ EngineWriteRelayed
    \/ EngineWriteFunded
    \/ EngineWriteProgress
    \/ EngineWriteLog
    \/ EngineCompleteStatus
    \/ EngineCompleteMark
    \/ EngineCompleteLog
    \/ EngineTip

\* one relay from the payment to completion. RelayEngine._run starts a cycle
\* every 30 s and a cycle runs to its end; every Chain Client call succeeds
\* eventually (it may fail any finite number of times before), and every
\* broadcast transaction confirms.
NextLive == DepositOnce \/ MineLive \/ Engine \/ Activate

SpecLive ==
    /\ Init
    /\ [][NextLive]_vars
    /\ WF_vars(EngineStoreSteps)
    /\ SF_vars(EngineCycleStart)
    /\ SF_vars(EngineFind)
    /\ SF_vars(EngineRelay)
    /\ SF_vars(EngineCompleteAmounts)
    /\ WF_vars(MineLive)

\* the creation of the chain in an empty Store
NextCreate == Environment \/ Create

SpecCreate == InitEmpty /\ [][NextCreate]_vars

\* the control surface between two engine cycles (the worker sleeps 30 s
\* after each cycle): activate, cancel, fix_status and manual retry
NextControl == Environment \/ Activate \/ Cancel \/ Fix \/ Retry

SpecControl == Init /\ [][NextControl]_vars

\* the chain's life with a recipient who spends from the final address
NextSpend == Environment \/ SpendFinal \/ Engine \/ Activate

SpecSpend == Init /\ [][NextSpend]_vars

\* the engine's lifecycle: request threads that start, restart and stop the
\* engine, and the worker threads.  A worker thread that can take a step takes
\* it: the calls of a cycle return and a wait ends
LifeRequests ==
    \E x \in Handlers :
        \/ \E r \in Routes : RequestArrives(x, r)
        \/ RouteStart(x)
        \/ RouteOther(x)
        \/ RouteStop(x)
        \/ StartLock(x)
        \/ StopJoin(x)
        \/ StartNew(x)

LifeWorker(t) == WorkerLoop(t) \/ WorkerCycleEnd(t) \/ WorkerWake(t)

NextLife == LifeRequests \/ \E t \in 1 .. MaxEngines : LifeWorker(t)

SpecLife ==
    /\ Init
    /\ [][NextLife]_vars
    /\ \A t \in 1 .. MaxEngines : WF_vars(LifeWorker(t))

\* the key vault: a secret is encrypted, its record may be altered, and it is
\* decrypted with some password
InitVault ==
    /\ InitWorld
    /\ chain = NoChain
    /\ hops = NoHops
    /\ log = [e \in EventTypes |-> 0]
    /\ InitHistory(FALSE)
    /\ vault \in VaultInputs
    /\ loop = LoopIdle

NextVault ==
    \/ VaultEncrypt
    \/ \E how \in {"replace", "truncate", "junk"}, p \in 1 .. MaxRecord :
          VaultTamper(how, p)
    \/ \E pw \in Passwords : VaultDecrypt(pw)

SpecVault == InitVault /\ [][NextVault]_vars

\* ------------------------------------------------------------------ claims
TerminalStatus == {"completed", "failed", "cancelled"}

\* C1: once a chain's stored status is completed, failed or cancelled, no step
\* of the engine, cancel, activate or fix_status changes it again.
C1_TerminalStatusNeverChanges ==
    [][chain.status \in TerminalStatus => chain'.status = chain.status]_vars

\* C2: the stored current_hop never decreases.
C2_CurrentHopNeverDecreases ==
    [][chain'.current_hop >= chain.current_hop]_vars

\* the addresses of A = [intake, hop 0, ..., hop n-1] that hold confirmed funds
FundedSources == {a \in Addr \ {Final} : conf[a] > 0}

\* C3: one engine cycle broadcasts at most one sweep for the chain, however many
\* of the chain's addresses hold confirmed funds.
C3_OneSweepPerCycle == cyc.bcasts <= 1

\* C3 witness: a cycle ends after its one sweep while another address of the
\* chain still holds confirmed funds that a sweep could move.
C3_Witness ==
    /\ eng.pc = "tip"
    /\ cyc.bcasts = 1
    /\ \E a \in FundedSources : LiveBalance(a) > EngineFee

\* what the engine may write in a cycle that must be idle: nothing of the chain
\* row, the hops or the broadcasts
NoSweepNoWrite == chain' = chain /\ hops' = hops /\ txCount' = txCount

\* C4 (as claimed): when the cycle runs twice in a row and nothing changed in
\* between, the second cycle broadcasts nothing and writes nothing but the tip
\* marker, also when the first cycle ended in a failed sweep.
C4_SecondCycleIdle ==
    [][cyc'.secondAny => (NoSweepNoWrite /\ log' = log)]_vars

\* C4 (amended): when the cycle runs twice in a row, the first ran without an
\* error and nothing changed since it began (balances, tip, fee estimate, Store),
\* the second cycle broadcasts nothing and writes nothing to the Store but the
\* tip marker and, when its own sweep attempt raises, a relay_error entry.
C4_SecondCycleIdleAfterCleanCycle ==
    [][cyc'.second =>
        /\ NoSweepNoWrite
        /\ \A e \in EventTypes \ {"relay_error"} : log'[e] = log[e]]_vars

\* C4 witness: the second of two such cycles has found nothing to do right
\* after a sweep that is broadcast and not yet confirmed.
C4_Witness ==
    /\ cyc.second
    /\ eng.pc = "tip"
    /\ \E a \in FundedSources : unconf[a] < 0

\* the lowest-index address of A with a confirmed balance above 0
LowestFunded == CHOOSE a \in FundedSources : \A b \in FundedSources : a <= b

\* the address a location names
AddrOfLoc(loc) == IF loc[1] = "intake" THEN Intake ELSE HopAddr(loc[2] - 1)

\* the destination the claim gives each source
ClaimedDestination(a) ==
    IF a = Intake THEN HopAddr(0)
    ELSE IF a - 1 < NumHops - 1 THEN HopAddr(a) ELSE Final

\* C5: the engine's sweep spends from the lowest-index address of A whose
\* confirmed balance is above 0 and its single output pays the matching
\* destination of D: intake pays hop 0, hop k pays hop k+1, hop n-1 pays final.
C5_SweepLowestFundedToNext ==
    [][/\ (eng.pc = "find" /\ eng'.pc = "relay") =>
            (FundedSources # {} /\ AddrOfLoc(eng'.loc) = LowestFunded)
       /\ (eng.pc = "relay" /\ eng'.pc \in {"w_recv", "w_rel"}) =>
            LET src == AddrOfLoc(eng.loc)
                dst == ClaimedDestination(src)
            IN  /\ unconf'[src] = unconf[src] - eng'.tx.balance
                /\ unconf'[dst] = unconf[dst] + eng'.tx.amount
                /\ \A x \in Addr \ {src, dst} : unconf'[x] = unconf[x]
                /\ eng'.tx.amount = eng'.tx.balance - eng'.tx.fee]_vars

\* C5 witness: a sweep has just been broadcast while a higher address of the
\* chain holds confirmed funds too.
C5_Witness ==
    /\ eng.pc \in {"w_recv", "w_rel"}
    /\ \E a \in FundedSources : a > AddrOfLoc(eng.loc)

\* C6: the sweep out of hop k is broadcast no earlier than delay_blocks[k] blocks
\* after the tip height at which hop k was recorded as funded: at the broadcast
\* the chain's tip is at least that height plus delay_blocks[k].
C6_DelayBeforeSweep ==
    [][(eng.pc = "relay" /\ eng'.pc = "w_rel"
        /\ hops[HopIndexOf(eng.loc)].incoming_confirmed_at_block # NULL) =>
            tip - hops[HopIndexOf(eng.loc)].incoming_confirmed_at_block
                >= hops[HopIndexOf(eng.loc)].delay_blocks]_vars

\* C7: after a crash between the broadcast of the intake sweep and its first
\* Store write, no sweep ever spends funds an earlier sweep already spent (the
\* intake is not swept a second time for them), and the engine's scan names
\* hop 0 as the source once the funds are confirmed there and the intake is empty.
C7_ResumeWithoutSecondIntakeSweep ==
    /\ [](\A a \in Addr : conf[a] + unconf[a] >= 0)
    /\ [][(hist.crashAfterIntake /\ eng.pc = "find" /\ eng'.pc = "relay"
           /\ conf[Intake] <= 0 /\ conf[HopAddr(0)] > 0) =>
                eng'.loc = <<"hop", 1>>]_vars

\* C7 witness: after such a crash the engine has swept hop 0, and the Store
\* never recorded the intake sweep.
C7_Witness ==
    /\ hist.crashAfterIntake
    /\ eng.pc = "w_rel"
    /\ eng.loc = <<"hop", 1>>
    /\ chain.amount_received_sats = NULL
    /\ hops[0].incoming_txid = NULL

\* the engine is inside _complete_chain
CompletionPcs == {"c_amt", "c_status", "c_mark", "c_log"}

\* C8 (as claimed): the engine completes a chain only in a cycle in which it saw
\* a balance above 0 at the final address, never in the cycle that broadcast the
\* last hop's sweep to final.
C8_CompletesOnlyOnObservedFinal ==
    eng.pc \in CompletionPcs => (cyc.sawFinal /\ ~cyc.sweptFinal)

\* C8 (amended): the engine completes a chain only in a cycle in which it found
\* no funded address and saw a balance above 0 at the final address, or in the
\* cycle in which it broadcast the last hop's sweep to final.
C8_CompletesOnObservedOrSweptFinal ==
    eng.pc \in CompletionPcs =>
        \/ cyc.sawFinal /\ cyc.bcasts = 0
        \/ cyc.sweptFinal /\ cyc.bcasts = 1

\* C8 witness: the cycle that broadcast the last hop's sweep to final is
\* completing the chain.
C8_Witness == eng.pc = "c_status" /\ cyc.sweptFinal

\* C9: a completed chain has amount_received_sats >= amount_sent_sats +
\* total_fees_sats.
C9_SumInvariant ==
    chain.status = "completed" =>
        /\ chain.amount_received_sats # NULL
        /\ chain.amount_sent_sats # NULL
        /\ chain.amount_received_sats >= chain.amount_sent_sats + chain.total_fees_sats

\* C10: in every state of the Store in which the chain is completed, every hop
\* of the chain is relayed.
C10_CompletedChainHopsRelayed ==
    chain.status = "completed" => \A k \in HopIdx : hops[k].status = "relayed"

\* C11: in a cycle that starts after a cancel committed status cancelled the
\* engine broadcasts no sweep and writes nothing to the chain's row, hops or
\* log; and no step of the engine, also of a cycle already in progress when the
\* cancel commits, overwrites the cancelled status.
C11_CancelStopsEngine ==
    [][eng' # eng =>
        /\ cyc.afterCancel => (NoSweepNoWrite /\ log' = log)
        /\ chain.status = "cancelled" => chain'.status = "cancelled"]_vars

\* C12: activate and cancel change the stored status only along the edges
\* pending -> active (activate) and pending or active -> cancelled (cancel); a
\* request on a chain in any other status leaves the chain's row and log as
\* they are, whatever runs concurrently with the request.
C12_ControlSurfaceEdges ==
    [][req' # req =>
        /\ req.kind = "activate" =>
                \/ chain' = chain
                \/ chain.status = "pending" /\ chain' = update_chain_status(chain, "active")
        /\ req.kind = "cancel" =>
                \/ chain' = chain
                \/ /\ chain.status \in CancelableStatus
                   /\ chain' = update_chain_status(chain, "cancelled")]_vars

\* the fee the claims give a sweep: the oracle's medium estimate, at least 200
ClaimedFee == Max(MediumFeeSats, 200)

\* C13: when the live balance of the selected source is at most the chosen fee
\* the engine broadcasts nothing in that cycle and changes no field of the
\* chain or its hops (the chain stays active), and a source with confirmed
\* funds keeps them, so that the next cycle's scan finds funds and tries
\* again; when the balance is
\* above the fee the sweep is broadcast and sends balance - fee (300 sats
\* with fee 200 send 100).
C13_InsufficientBalanceSkips ==
    [][(eng.pc = "relay" /\ eng' # eng /\ log' = log) =>
        LET src == AddrOfLoc(eng.loc)
            bal == conf[src] + unconf[src]
        IN  IF bal <= ClaimedFee
            THEN /\ txCount' = txCount /\ unconf' = unconf
                 /\ chain' = chain /\ hops' = hops
                 /\ eng'.pc = "tip"
                 /\ conf[src] > 0 => src \in FundedSources'
            ELSE /\ txCount' = txCount + 1
                 /\ eng'.tx.amount = bal - ClaimedFee
                 /\ (bal = 300 /\ ClaimedFee = 200) => eng'.tx.amount = 100]_vars

\* C13 witness: 300 sats arrived at the intake, the sweep sent 100 to hop 0 at
\* fee 200, and a later cycle has just skipped hop 0, which holds those 100.
C13_Witness ==
    /\ eng.pc = "tip"
    /\ eng.loc = <<"hop", 1>>
    /\ cyc.bcasts = 0
    /\ log["relay_error"] = 0
    /\ chain.amount_received_sats = 300
    /\ hops[0].incoming_amount_sats = 100
    /\ LiveBalance(HopAddr(0)) = 100
    /\ chain.status = "active"

\* what the mempool gains at address x in a step
Gain(x) == unconf'[x] - unconf[x]

\* C14: every sweep the engine broadcasts pays the fee max(oracle medium
\* estimate, 200), with the oracle answering or the fallback schedule in use,
\* never less than 200, and has a single output of exactly the source's live
\* balance less the fee.
C14_FeeFloorAndSingleOutput ==
    [][(eng.pc = "relay" /\ txCount' # txCount) =>
        LET src == AddrOfLoc(eng.loc)
            bal == conf[src] + unconf[src]
        IN  /\ eng'.tx.fee = ClaimedFee
            /\ eng'.tx.fee >= 200
            /\ eng'.tx.amount = bal - eng'.tx.fee
            /\ Gain(src) = 0 - bal
            /\ \E d \in Addr \ {src} :
                    /\ Gain(d) = eng'.tx.amount
                    /\ \A x \in Addr \ {src, d} : Gain(x) = 0]_vars

\* C14 witness: the oracle's medium estimate is below the floor and a sweep
\* has just been broadcast at fee 200.
C14_Witness ==
    /\ eng.pc \in {"w_recv", "w_rel"}
    /\ oracle.up
    /\ MediumFeeSats < 200
    /\ eng.tx.fee = 200
    /\ eng.tx.amount = eng.tx.balance - 200

\* C15: when a sweep attempt fails before its transaction is accepted
\* (decryption, fee query, balance query, construction, rejected broadcast) the
\* engine appends exactly one relay_error entry to the chain's log and leaves
\* the chain's status, current_hop and amounts and every field of every hop as
\* they were; nothing is broadcast.
C15_FailedSweepOnlyLogs ==
    [][(eng.pc = "relay" /\ eng' # eng /\ log' # log) =>
            /\ log'["relay_error"] = log["relay_error"] + 1
            /\ \A e \in EventTypes \ {"relay_error"} : log'[e] = log[e]
            /\ chain' = chain
            /\ hops' = hops
            /\ unconf' = unconf
            /\ txCount' = txCount]_vars

\* C15 witness: a sweep attempt of funds that cover the fee has just failed.
C15_Witness ==
    /\ eng.pc = "tip"
    /\ eng.loc[1] # "none"
    /\ cyc.bcasts = 0
    /\ log["relay_error"] = 1
    /\ LiveBalance(AddrOfLoc(eng.loc)) > EngineFee
    /\ chain.status = "active"

\* C16: an active chain whose intake holds a deposit larger than (n+1) times
\* the fee eventually is completed with all its hops relayed, whatever finite
\* number of cycles failed before, and its sweeps spend the intake, hop 0, ...,
\* hop n-1 in that order: the i-th sweep broadcast spends the i-th address.
C16_EventualCompletion ==
    /\ (chain.status = "active"
        /\ conf[Intake] + unconf[Intake] > (NumHops + 1) * ClaimedFee)
          ~> (chain.status = "completed"
              /\ \A k \in HopIdx : hops[k].status = "relayed")
    /\ [][(eng.pc = "relay" /\ txCount' # txCount) =>
            AddrOfLoc(eng.loc) = txCount]_vars

\* C16 witness: after a failed cycle the chain is completed with every hop
\* relayed, the n+1 sweeps broadcast and the funds at the final address.
C16_Witness ==
    /\ chain.status = "completed"
    /\ \A k \in HopIdx : hops[k].status = "relayed"
    /\ txCount = NumHops + 1
    /\ log["relay_error"] = 1
    /\ conf[Final] + unconf[Final] = 1500 - (NumHops + 1) * 200

\* the hop_numbers the chain's row announces
AnnouncedHops == 0 .. (chain.total_hops - 1)

\* C17: in every state of the Store a chain's hops have exactly the
\* hop_numbers 0 .. total_hops-1, also while create_chain is in progress and
\* after it failed part-way, and a hop's delay never changes once the hop is
\* created (the model fixes a hop's address and key by its hop_number).
C17_HopsDenseAndImmutable ==
    /\ [](chain.status # "none" => DOMAIN hops = AnnouncedHops)
    /\ [][\A k \in DOMAIN hops :
            k \in DOMAIN hops' /\ hops'[k].delay_blocks = hops[k].delay_blocks]_vars

\* C18: a create request with num_hops below 2 or above 10 is rejected and
\* creates no chain, no hop and no log entry, so that every chain in the Store
\* has 2 <= total_hops <= 10.
C18_HopLimits ==
    /\ [](chain.status # "none" => (2 <= chain.total_hops /\ chain.total_hops <= 10))
    /\ []((DOMAIN hops # {} \/ log["chain_created"] > 0) => chain.status # "none")
    /\ []((req.kind = "create") => (2 <= req.num_hops /\ req.num_hops <= 10))

\* C18 witness: a chain of 10 hops, the largest allowed, is fully created.
C18_Witness ==
    /\ chain.status = "pending"
    /\ chain.total_hops = 10
    /\ DOMAIN hops = 0 .. 9
    /\ log["chain_created"] = 1
    /\ req.kind = "none"

\* `delays` has n terms, the first two are 1, each later one is the sum of
\* the two before it
IsFibonacci(delays, n) ==
    /\ Len(delays) = n
    /\ \A i \in 1 .. n :
        delays[i] = IF i <= 2 THEN 1 ELSE delays[i - 1] + delays[i - 2]

\* C19: calculate_fibonacci_delays(n) returns exactly n terms, 1, 1 and then
\* each the sum of the two before, for every n up to MaxFibN (beyond the 12
\* entries of the table), and chain creation stores term k as hop k's
\* delay_blocks.
C19_FibonacciDelays ==
    /\ \A n \in 0 .. MaxFibN : IsFibonacci(calculate_fibonacci_delays(n), n)
    /\ req.kind = "create" => IsFibonacci(req.delays, req.num_hops)
    /\ \A k \in DOMAIN hops :
        hops[k].delay_blocks =
            IF k < 2 THEN 1 ELSE hops[k - 1].delay_blocks + hops[k - 2].delay_blocks

\* C19 witness: the tenth hop of a chain is created with delay 55.
C19_Witness ==
    /\ 9 \in DOMAIN hops
    /\ hops[9].delay_blocks = 55
    /\ hops[2].delay_blocks = 2

ReportStatus == {"success", "skipped", "no_funds", "error"}

\* the addresses a manual retry walks: intake, hop 1, ..., hop n
Walked == Addr \ {Final}

\* the report has one entry per walked address, each with a status of the four
WellFormedReport ==
    /\ Len(req.results) = NumHops + 1
    /\ \A i \in 1 .. Len(req.results) : req.results[i] \in ReportStatus

\* every sweep a manual retry broadcasts pays fee 200 from the walked address
\* of the round to one output
ManualSweepFee ==
    (req.kind = "retry" /\ txCount' # txCount) =>
        /\ req'.tx.fee = 200
        /\ req'.tx.amount = req'.tx.balance - 200
        /\ Gain(req.i) = 0 - req'.tx.balance
        /\ \E d \in Addr \ {req.i} :
                /\ Gain(d) = req'.tx.amount
                /\ \A x \in Addr \ {req.i, d} : Gain(x) = 0

\* the report names address a as the one success and no_funds everywhere else
OneSuccessAt(a) ==
    \A i \in 1 .. Len(req.results) :
        req.results[i] = IF i = a + 1 THEN "success" ELSE "no_funds"

\* C20 (as claimed): a manual retry always ends with a report of one entry
\* per walked address, each success, skipped, no_funds or error; its sweeps
\* use fee 200; and when exactly one walked address holds confirmed funds
\* above 200 as the walk begins, the report has one success and no_funds for
\* all others.
C20_ManualRetryReport ==
    /\ [](req.pc = "m_done" =>
            /\ WellFormedReport
            /\ \A a \in Walked :
                 {b \in Walked : req.start[b][1] > 200} = {a} => OneSuccessAt(a))
    /\ [][/\ ManualSweepFee
           /\ (req.kind = "retry" /\ req'.kind = "none") => req.pc = "m_done"]_vars

\* C20 (amended): a manual retry that returns a report returns one entry per
\* walked address, each success, skipped, no_funds or error (it returns none
\* when the tip query or a balance query of the walk raises); its sweeps use
\* fee 200; and when, as the walk begins, exactly one walked address holds
\* confirmed funds, more than 200 of them are still unspent, and during the
\* walk no block is mined and no call raises, the report has one success, at
\* that address, and no_funds for all others.
C20_ManualRetryReportOfQuietWalk ==
    /\ [](req.pc = "m_done" =>
            /\ WellFormedReport
            /\ \A a \in Walked :
                 ( /\ {b \in Walked : req.start[b][1] > 0} = {a}
                   /\ req.start[a][1] + req.start[a][2] > 200
                   /\ tip = req.block
                   /\ \A i \in 1 .. Len(req.results) : req.results[i] # "error" )
                 => OneSuccessAt(a))
    /\ [][ManualSweepFee]_vars

\* C20 witness: a walk that found its funds at hop 1 and swept them returns
\* its report.
C20_Witness ==
    /\ req.pc = "m_done"
    /\ OneSuccessAt(HopAddr(0))
    /\ req.start[HopAddr(0)][1] > 200
    /\ tip = req.block
    /\ hops[0].status = "relayed"

\* ------------------------------------------------------------------ C21
\* the worker threads that are inside _process_cycle
Cycling == {t \in DOMAIN life.threads : life.threads[t].pc = "cycle"}

\* C21: at every instant at most one engine worker thread of the process is
\* executing a relay cycle, whatever requests start, stop and restart the
\* engine, also when stop()'s join times out with the worker inside a cycle.
C21_SingleWorker == Cardinality(Cycling) <= 1

\* ------------------------------------------------------------------ C22
\* thread t runs and stop() has set the flag of its engine; thread t has ended
StoppedWorker(t) ==
    IF t \in DOMAIN life.threads THEN life.threads[t].stopped ELSE FALSE
EndedWorker(t) ==
    IF t \in DOMAIN life.threads THEN life.threads[t].pc = "ended" ELSE FALSE

\* C22: once stop() has set the shutdown flag of a worker's engine, the worker
\* begins no cycle any more (it only finishes the one it is in), and its loop
\* eventually ends; a worker that was waiting between two cycles ends without
\* another cycle.
C22_StoppedWorkerEnds ==
    /\ [][\A t \in DOMAIN life.threads :
            life.threads[t].stopped /\ life.threads[t].pc # "cycle"
                => life'.threads[t].pc # "cycle"]_vars
    /\ \A t \in 1 .. MaxEngines : StoppedWorker(t) ~> EndedWorker(t)

\* a worker that stop() stopped has ended while its successor is in a cycle
C22_Witness ==
    \E t, u \in DOMAIN life.threads :
        /\ life.threads[t].stopped
        /\ life.threads[t].pc = "ended"
        /\ life.threads[u].pc = "cycle"

\* ------------------------------------------------------------------ C23
\* C23: decrypt(encrypt(m, pw), pw) = m for every plaintext m and password
\* pw, whatever salt and nonce encrypt drew: the record encrypt returned,
\* stored unaltered and decrypted with the same password, gives m back.
C23_RoundTrip ==
    (vault.pc = "done" /\ vault.altered = "none" /\ vault.tried = vault.password)
        => vault.out = [ok |-> TRUE, plaintext |-> vault.plaintext]

\* a secret with a two-byte character has gone through encrypt and decrypt
C23_Witness ==
    /\ vault.pc = "done"
    /\ vault.altered = "none"
    /\ vault.tried = vault.password
    /\ vault.out.ok
    /\ \E i \in DOMAIN vault.plaintext : vault.plaintext[i] = 233

\* ------------------------------------------------------------------ C24
\* C24 as stated: decrypt with another password than the one of encrypt, or of
\* a record that differs from the one encrypt returned (altered or cut short),
\* never returns a plaintext; it fails, with one and the same error.
C24_AlteredRecordFails ==
    (vault.pc = "done"
        /\ (vault.tried # vault.password \/ vault.record # vault.original))
        => vault.out = DecryptFailed

\* C24, amended: decrypt with another password, or of a record whose
\* base64-decoded bytes differ from those encrypt produced, never returns a
\* plaintext; it fails, with one and the same error whatever the cause.
C24_AlteredBytesFail ==
    (vault.pc = "done"
        /\ (\/ vault.tried # vault.password
            \/ b64decode(vault.record) # b64decode(vault.original)))
        => vault.out = DecryptFailed

\* the right password was tried on a record with one character replaced
C24_Witness ==
    /\ vault.pc = "done"
    /\ vault.altered = "replace"
    /\ vault.tried = vault.password
    /\ vault.out = DecryptFailed

\* ------------------------------------------------------------------ C25
\* C25: whenever a sweep into hop k is recorded, by the engine or by manual
\* retry, hop k's relay_at_block is set to the tip height read for that cycle
\* (or walk) plus hop k's delay_blocks.
C25_RelayAtTipPlusDelay ==
    [][/\ (eng.pc = "w_fund" /\ hops' # hops)
            => hops'[eng.dest_hop_index].relay_at_block
                 = eng.block + hops[eng.dest_hop_index].delay_blocks
       /\ (req.pc = "m_fund" /\ hops' # hops)
            => hops'[req.i].relay_at_block = req.block + hops[req.i].delay_blocks
      ]_vars

\* ------------------------------------------------------------------ C26
\* C26: the Store updates that follow a successful broadcast are applied
\* atomically: no reader and no crash finds only some of them applied.  In
\* every state of the Store, a hop that carries the txid of its sweep has
\* that txid as the incoming txid of the next hop, and the chain's
\* current_hop has passed it.
C26_SweepRecordedAtOnce ==
    \A k \in DOMAIN hops :
        hops[k].outgoing_txid # NULL =>
            /\ (k + 1) \in DOMAIN hops
                 => hops[k + 1].incoming_txid = hops[k].outgoing_txid
            /\ chain.current_hop >= k + 1

\* ------------------------------------------------------------------ C27
\* the Store as the record of the sweep the worker has broadcast, from hop k
\* or from the intake
SweepRecorded(c, hs, loc, tx) ==
    IF loc[1] = "intake"
    THEN /\ c.amount_received_sats = tx.balance
         /\ hs[0].status = "pending_relay"
         /\ hs[0].incoming_txid = tx.txid
    ELSE LET k == loc[2] - 1
         IN /\ hs[k].status = "relayed"
            /\ hs[k].outgoing_txid = tx.txid
            /\ hs[k].outgoing_amount_sats = tx.amount
            /\ hs[k].outgoing_fee_sats = tx.fee
            /\ k < NumHops - 1 =>
                 /\ hs[k + 1].status = "pending_relay"
                 /\ hs[k + 1].incoming_txid = tx.txid
                 /\ hs[k + 1].incoming_amount_sats = tx.amount
            /\ c.current_hop = k + 1

\* C27: after the engine has broadcast a sweep from hop k and made its Store
\* calls (the relay_sent entry is the last of them), hop k is relayed with the broadcast's txid, amount and fee, hop k+1
\* (k not the last hop) is pending_relay with that txid and amount incoming,
\* current_hop is k+1, and exactly one relay_sent entry is new; after a sweep
\* from the intake amount_received_sats is the swept balance and hop 0 is
\* pending_relay with the txid.
C27_SweepRecord ==
    [][/\ (eng.pc = "w_log" /\ log'["relay_sent"] # log["relay_sent"])
            => /\ SweepRecorded(chain', hops', eng.loc, eng.tx)
               /\ log'["relay_sent"] = log["relay_sent"] + 1
       /\ eng.pc \in {"w_recv", "w_rel", "w_fund", "w_cur"}
            => log'["relay_sent"] = log["relay_sent"]
      ]_vars

\* the sweep of hop 0 (not the last hop) has just been recorded
C27_Witness ==
    /\ eng.pc = "tip"
    /\ eng.loc = <<"hop", 1>>
    /\ cyc.bcasts = 1
    /\ log["relay_sent"] = 2
    /\ SweepRecorded(chain, hops, eng.loc, eng.tx)

\* ------------------------------------------------------------------ C28
\* C28: when the engine completes a chain, amount_sent_sats is set to the
\* balance observed at the final address (confirmed plus unconfirmed), and
\* only when that balance is 0 to the outgoing amount stored for the chain's
\* last hop, not to that of an earlier hop.
C28_AmountSentFromLastHop ==
    [][(eng.pc = "c_amt" /\ eng'.pc = "c_status")
          => chain'.amount_sent_sats =
               IF LiveBalance(Final) # 0 THEN LiveBalance(Final)
               ELSE OrZero(hops[NumHops - 1].outgoing_amount_sats)
      ]_vars

\* ------------------------------------------------------------------ C29
\* C29: when the engine completes a chain, the stored total_fees_sats is the
\* sum of outgoing_fee_sats over the chain's hop records as they stand in the
\* Store at that moment, the fee of a final sweep recorded in the same cycle
\* included.
C29_TotalFeesOfStore ==
    [][(eng.pc = "c_amt" /\ eng'.pc = "c_status")
          => chain'.total_fees_sats = SumFees(hops, 0)
      ]_vars

\* ------------------------------------------------------------------ C30
\* C30: a cycle whose tip read fails processes no chain, broadcasts nothing
\* and writes nothing to the Store (the tip marker keeps its value); a cycle
\* that read the tip sets the tip marker of the engine's network to that tip
\* when it ends, also when the processing of the chain raised an error, and
\* no step changes the marker of the other network.
C30_TipMarker ==
    [][/\ EngineTipFail
            => UNCHANGED <<chain, hops, log, last_height, txCount, unconf, eng>>
       /\ (eng.pc # "idle" /\ eng'.pc = "idle")
            => last_height'[EngineNetwork] = eng.block
       /\ \A n \in Networks \ {EngineNetwork} : last_height'[n] = last_height[n]
      ]_vars

\* a cycle in which a sweep raised has ended and left its tip as the marker
C30_Witness ==
    /\ eng.pc = "idle"
    /\ log["relay_error"] = 1
    /\ hist.deposits = 1
    /\ last_height[EngineNetwork] = tip
    /\ tip > 0
    /\ last_height["mainnet"] = NULL

\* ------------------------------------------------------------------ C31
\* C31: a hop's status leaves waiting only in a step in which funds are seen
\* at the hop's own address (confirmed or in the mempool), and leaves
\* pending_relay only in the step that records a broadcast spending from that
\* hop; completion, fix_status and manual retry move no hop otherwise.
C31_HopLeavesOnEvidence ==
    [][\A k \in DOMAIN hops :
          /\ (hops[k].status = "waiting" /\ hops'[k].status # "waiting")
                => LiveBalance(HopAddr(k)) > 0
          /\ (hops[k].status = "pending_relay" /\ hops'[k].status # "pending_relay")
                => \/ eng.pc = "w_rel" /\ HopIndexOf(eng.loc) = k
                   \/ req.pc = "m_rel" /\ req.i - 1 = k
      ]_vars

\* ------------------------------------------------------------------ C32
\* C32: hop status changes are monotone along waiting, funded, pending_relay,
\* relayed: a hop whose stored status is relayed stays relayed, whatever
\* cycles and sweeps follow, a second sweep into the hop included.
C32_RelayedStaysRelayed ==
    [][\A k \in DOMAIN hops :
          hops[k].status = "relayed" => hops'[k].status = "relayed"]_vars

\* ------------------------------------------------------------------ C33
\* the address entry i of manual_relay_chain's list, as the engine names it
ManualLoc(i) == IF i = Intake THEN <<"intake", 0>> ELSE <<"hop", i>>

\* C33: manual retry updates the Store as the engine does: when the Store
\* calls that follow a manual sweep from address i are made (manual_relay is
\* the last of them), the chain and hop records are those an engine sweep
\* from that address with the same txid, amount and fee leaves: source hop
\* relayed with the outgoing fields, destination hop pending_relay with the
\* incoming fields, amount_received_sats for the intake, current_hop = i.
C33_ManualRetryRecordsAsEngine ==
    [][(req.pc = "m_log" /\ log'["manual_relay"] # log["manual_relay"])
          => SweepRecorded(chain', hops', ManualLoc(req.i), req.tx)]_vars

\* ------------------------------------------------------------------ C34
\* an address holds confirmed or unconfirmed funds
Funded(a) == AddressBalance(a)[1] > 0 \/ AddressBalance(a)[2] > 0

\* C34: fix_status marks as relayed every hop that is not yet relayed and
\* whose downstream address holds confirmed or unconfirmed funds, marks the
\* chain completed whenever the final address holds confirmed or unconfirmed
\* funds, broadcasts nothing, and changes no record when neither holds.
C34_FixStatusReconciles ==
    [][/\ (req.pc = "f_hop" /\ req' # req /\ req.hops[req.i].status # "relayed"
              /\ Funded(Downstream(req.i)))
          => hops'[req.i].status = "relayed"
       /\ (req.pc = "f_final" /\ req' # req /\ Funded(Final)
              /\ req.status # "completed")
          => req'.pc = "f_status"
       /\ (req.pc = "f_status" /\ req' # req) => chain'.status = "completed"
       /\ (req.kind = "fix" /\ req' # req)
          => /\ UNCHANGED <<conf, unconf, txCount>>
             /\ (~Funded(Final) /\ \A k \in DOMAIN hops : ~Funded(Downstream(k)))
                   => UNCHANGED <<chain, hops>>
      ]_vars

\* ------------------------------------------------------------------ cycles
\* one worker runs _run over the chains of its network, payments arrive and
\* the engine may be asked to stop
InitCycle ==
    /\ InitWorld
    /\ chain = NoChain
    /\ hops = NoHops
    /\ log = [e \in EventTypes |-> 0]
    /\ InitHistory(FALSE)
    /\ vault = VaultIdle
    /\ loop \in LoopInputs

NextCycle ==
    \/ CycleBegin
    \/ CycleTip
    \/ CycleTipFail
    \/ CycleLoad
    \/ CycleLoadFail
    \/ CycleChainQuiet
    \/ CycleChainRelay
    \/ CycleChainRaise
    \/ CycleHeight
    \/ CycleHeightFail
    \/ CycleWake
    \/ \E c \in Chains : CycleFunds(c)
    \/ CycleStop

SpecCycle == InitCycle /\ [][NextCycle]_vars

\* ------------------------------------------------------------------ C35
\* C35: when decrypting the source key of a chain fails in a cycle, that chain
\* gets exactly one error log entry and no broadcast and the loop goes on to
\* the next chain; whatever happens while one chain is processed, every
\* active chain the cycle loaded has been processed when the loop is left.
C35_ChainErrorSkipsOneChain ==
    /\ [][(loop.pc = "chain" /\ loop' # loop /\ loop'.done # loop.done)
            => LET c == loop.active[loop.i] IN
                /\ loop'.done = loop.done \cup {c}
                /\ (loop.funded[c]
                      /\ decrypt(StoredKey(loop.key[c]), EnginePassword) = DecryptFailed
                      /\ loop'.processing_status[c] = "Relay failed")
                    => /\ loop'.errors[c] = 1
                       /\ loop'.bcast = loop.bcast
                       /\ c \notin loop.bcast
                /\ loop'.pc = IF loop.i < Len(loop.active) THEN "chain" ELSE "height"
          ]_vars
    /\ [](loop.pc = "height"
            => loop.done = {loop.active[j] : j \in DOMAIN loop.active})

\* a chain whose key failed to decrypt was skipped with one error entry, and
\* a chain after it in the same cycle was swept
C35_Witness ==
    /\ loop.pc = "height"
    /\ \E j, k \in DOMAIN loop.active :
          /\ j < k
          /\ loop.errors[loop.active[j]] = 1
          /\ loop.active[j] \notin loop.bcast
          /\ loop.active[k] \in loop.bcast

\* ------------------------------------------------------------------ C36
\* C36: a fatal error in a cycle (a Store operation of _process_cycle
\* failing) terminates the worker: once one has been raised, the worker
\* begins no further cycle.
C36_FatalEndsWorker ==
    [][loop.fatal > 0 => loop'.ncycles = loop.ncycles]_vars

\* ------------------------------------------------------------------ C37
\* the engine worker and a manual retry run on the same chain at once.  A
\* sweep reads the unspent outputs of its source and broadcasts a transaction
\* that spends them; the node refuses a transaction whose inputs another
\* transaction has spent, so a sweep built on a stale reading is one whose
\* broadcast raises (EngineRelayFail, RetryAddressFail) and a sweep that is
\* accepted spends what the address holds when it is accepted.
\* The chain has been activated, one payment to the intake has confirmed and
\* the oracle answers.
InitRace ==
    /\ tip = MaxTip - 2
    /\ conf = [a \in Addr |-> IF a = Intake THEN 1500 ELSE 0]
    /\ unconf = [a \in Addr |-> 0]
    /\ oracle \in OracleStates
    /\ txCount = 0
    /\ last_height = [n \in Networks |-> NULL]
    /\ eng = EngIdle
    /\ req = ReqIdle
    /\ life = LifeInit
    /\ chain = update_chain_status(NewChain, "active")
    /\ hops = [k \in HopIdx |-> NewHop(k)]
    /\ log = [e \in EventTypes |->
                IF e \in {"chain_created", "chain_activated"} THEN 1 ELSE 0]
    /\ vault = VaultIdle
    /\ loop = LoopIdle
    /\ cyc = NewCycle
    /\ hist = [track |-> FALSE, deposits |-> 1, crashes |-> 0,
               clean |-> FALSE, ran |-> FALSE, crashAfterIntake |-> FALSE]

\* the engine's steps short of _complete_chain, which the payment cannot reach
\* in the blocks left
EngineSweeps ==
    \/ EngineCycleStart
    \/ EngineTipFail
    \/ EngineFind
    \/ EngineFindFail
    \/ EngineRelay
    \/ EngineRelayFail
    \/ EngineWriteReceived
    \/ EngineWriteRelayed
    \/ EngineWriteFunded
    \/ EngineWriteProgress
    \/ EngineWriteLog
    \/ EngineTip

NextRace == Mine \/ EngineSweeps \/ Retry

SpecRace == InitRace /\ [][NextRace]_vars

\* the worker, or the handler, has broadcast a sweep and is recording it
EngineRecording == eng.pc \in {"w_recv", "w_rel", "w_fund", "w_cur", "w_log"}
RetryRecording == req.pc \in {"m_recv", "m_rel", "m_fund", "m_log"}

EngineStopped == life.relay_engine # 0 /\ ~EngineRunning(life) /\ life.engine_lock = 0

\* C38: once the engine has been stopped, a request that does not ask for a
\* start (list, status, retry, stop) does not start it again: its handler
\* does not enter start_engine_for_network, so no worker runs a further cycle
\* until a start is asked for.
C38_StoppedUntilStartAsked ==
    [][\A x \in Handlers :
          (EngineStopped /\ life.h[x].pc = "idle" /\ life'.h[x].pc # "idle"
              /\ life'.h[x].route # "start")
          => life'.h[x].pc # "lock"]_vars

\* ------------------------------------------------------------------ C39
\* C39: in every reachable state the records of adjacent hops agree: when
\* hop k has an outgoing_txid and hop k+1 an incoming_txid the two are equal
\* and so are the outgoing and incoming amounts; and hop 0's incoming amount
\* is amount_received_sats less the fee of the intake's sweep.
C39_AdjacentHopsAgree ==
    /\ \A k \in DOMAIN hops :
          (k + 1 \in DOMAIN hops /\ hops[k].outgoing_txid # NULL
              /\ hops[k + 1].incoming_txid # NULL)
          => /\ hops[k].outgoing_txid = hops[k + 1].incoming_txid
             /\ hops[k].outgoing_amount_sats = hops[k + 1].incoming_amount_sats
    /\ (0 \in DOMAIN hops /\ hops[0].incoming_txid # NULL
            /\ chain.amount_received_sats # NULL)
          => chain.amount_received_sats - hops[0].incoming_amount_sats
                \in {EngineFee, MANUAL_FEE}

\* ------------------------------------------------------------------ C40
\* C40: in every reachable state 0 <= current_hop <= total_hops, and when
\* current_hop = k + 1 a sweep out of hop k has been broadcast: hop k carries
\* the txid of a transaction that was broadcast.
C40_ProgressWithinChain ==
    /\ chain.current_hop >= 0
    /\ chain.current_hop <= chain.total_hops
    /\ chain.current_hop > 0
          => /\ chain.current_hop - 1 \in DOMAIN hops
             /\ hops[chain.current_hop - 1].outgoing_txid \in 1 .. txCount
             /\ hops[chain.current_hop - 1].outgoing_amount_sats > 0

\* the sweep out of the last hop has been recorded as the chain's progress
C40_Witness ==
    /\ chain.current_hop = chain.total_hops
    /\ chain.total_hops = NumHops
    /\ hops[NumHops - 1].outgoing_txid # NULL

====
